---- MODULE Spec2Model ----
(***************************************************************************)
(* License ledger engine of server-deploy.js: the claim / consume /        *)
(* validate handlers over a Google-Sheets table.  Every cell is the string *)
(* the Sheets API returns, modelled as a sequence of one-character         *)
(* strings; every await of a handler is a separate step, so concurrent     *)
(* requests interleave exactly at the store round trips.                   *)
(***************************************************************************)
EXTENDS Integers, Sequences, FiniteSets, TLC

\* Number of HTTP requests served in one behaviour.
MaxReq == 2

\* server-deploy.js:594 - the fixed grant of a claim.
GRANT == 500000

Req == 1..MaxReq

(***************************************************************************)
(* Strings                                                                 *)
(***************************************************************************)
Digits == <<"0", "1", "2", "3", "4", "5", "6", "7", "8", "9">>

IsDigit(c) == \E d \in 1..10 : Digits[d] = c

DigitVal(c) == (CHOOSE d \in 1..10 : Digits[d] = c) - 1

\* String.prototype.toLowerCase on one character (the letters headers use).
UpperToLower ==
    ("A" :> "a") @@ ("C" :> "c") @@ ("D" :> "d") @@ ("E" :> "e") @@ ("I" :> "i")
    @@ ("K" :> "k") @@ ("L" :> "l") @@ ("M" :> "m") @@ ("N" :> "n")
    @@ ("O" :> "o") @@ ("R" :> "r") @@ ("S" :> "s") @@ ("T" :> "t")
    @@ ("V" :> "v")

LowerChar(c) == IF c \in DOMAIN UpperToLower THEN UpperToLower[c] ELSE c

\* header.toLowerCase().includes(sub): sub occurs in the lower-cased header.
lowerIncludes(header, sub) ==
    \E i \in 1..(Len(header) - Len(sub) + 1) :
        \A k \in 1..Len(sub) : LowerChar(header[i + k - 1]) = sub[k]

\* s.replace('#', ''): a string pattern replaces the FIRST occurrence only,
\* wherever it is.
replaceHash(s) ==
    IF \E i \in 1..Len(s) : s[i] = "#"
    THEN LET k == CHOOSE i \in 1..Len(s) :
                      s[i] = "#" /\ \A j \in 1..(i - 1) : s[j] # "#"
         IN  SubSeq(s, 1, k - 1) \o SubSeq(s, k + 1, Len(s))
    ELSE s

\* Value of a string of decimal digits.
RECURSIVE DigitsValue(_)
DigitsValue(s) ==
    IF s = <<>> THEN 0
    ELSE 10 * DigitsValue(SubSeq(s, 1, Len(s) - 1)) + DigitVal(s[Len(s)])

\* Length of the longest prefix of s made of digits.
DigitPrefix(s) ==
    CHOOSE k \in 0..Len(s) :
        /\ \A i \in 1..k : IsDigit(s[i])
        /\ (k = Len(s) \/ ~IsDigit(s[k + 1]))

\* parseInt(cell) || 0: optional sign, then the leading digits; NaN (no digit,
\* empty or undefined cell) and 0 both give 0.
parseIntOr0(s) ==
    LET neg  == Len(s) > 0 /\ s[1] = "-"
        body == IF Len(s) > 0 /\ s[1] \in {"-", "+"} THEN Tail(s) ELSE s
        k    == DigitPrefix(body)
        v    == DigitsValue(SubSeq(body, 1, k))
    IN  IF k = 0 THEN 0 ELSE IF neg THEN 0 - v ELSE v

\* The string the store returns for a number written with valueInputOption RAW.
RECURSIVE NatString(_)
NatString(n) ==
    IF n < 10 THEN <<Digits[n + 1]>>
    ELSE NatString(n \div 10) \o <<Digits[(n % 10) + 1]>>

NumberString(n) == IF n < 0 THEN <<"-">> \o NatString(0 - n) ELSE NatString(n)


(***************************************************************************)
(* The table: rows[1] is the header row, rows[2..] are the data rows.      *)
(***************************************************************************)
hSerial      == <<"S", "e", "r", "i", "a", "l">>
hClientOrder == <<"C", "l", "i", "e", "n", "t", "O", "r", "d", "e", "r">>
hToken       == <<"T", "o", "k", "e", "n">>
hActivated   == <<"A", "c", "t", "i", "v", "a", "t", "e", "d">>
hTerminated  == <<"T", "e", "r", "m", "i", "n", "a", "t", "e", "d">>

TRUE_  == <<"T", "R", "U", "E">>
FALSE_ == <<"F", "A", "L", "S", "E">>

S1 == <<"S", "1">>
S2 == <<"S", "2">>
S9 == <<"S", "9">>

\* Header rows the engine runs to completion on: the five columns, and the
\* table without its optional Activated or Terminated column.
FullHeader   == <<hSerial, hClientOrder, hToken, hActivated, hTerminated>>
NoActivatedHeader  == <<hSerial, hClientOrder, hToken, hTerminated>>
NoTerminatedHeader == <<hSerial, hClientOrder, hToken, hActivated>>

\* Two order records (orders "#7" and "8"), as the store owner imported them.
\* An unclaimed record and an active one holding the full grant.
FreshData ==
    << [serial |-> S1, order |-> <<"#", "7">>, token |-> <<"0">>,
        activated |-> FALSE_, terminated |-> FALSE_],
       [serial |-> S2, order |-> <<"8">>, token |-> NumberString(GRANT),
        activated |-> TRUE_, terminated |-> FALSE_] >>

\* An unclaimed record and a terminated, activated one with a residual balance.
TerminatedData ==
    << [serial |-> S1, order |-> <<"#", "7">>, token |-> <<"0">>,
        activated |-> FALSE_, terminated |-> FALSE_],
       [serial |-> S2, order |-> <<"8">>, token |-> <<"1">>,
        activated |-> TRUE_, terminated |-> TRUE_] >>

\* A terminated record that was never activated, with a residual balance, and
\* an unclaimed record whose token cell is empty.
NeverActivatedData ==
    << [serial |-> S1, order |-> <<"#", "7">>, token |-> <<"1">>,
        activated |-> FALSE_, terminated |-> TRUE_],
       [serial |-> S2, order |-> <<"8">>, token |-> <<>>,
        activated |-> FALSE_, terminated |-> FALSE_] >>

\* The row of cells a record occupies under a header row.
RowOf(header, rec) ==
    [j \in 1..Len(header) |->
        CASE header[j] = hSerial      -> rec.serial
          [] header[j] = hClientOrder -> rec.order
          [] header[j] = hToken       -> rec.token
          [] header[j] = hActivated   -> rec.activated
          [] header[j] = hTerminated  -> rec.terminated
          [] OTHER                    -> <<>>]

SheetOf(header, data) ==
    <<header>> \o [i \in 1..Len(data) |-> RowOf(header, data[i])]

\* The tables a behaviour may start from.
Sheets ==
    { SheetOf(FullHeader, FreshData),
      SheetOf(FullHeader, TerminatedData),
      SheetOf(FullHeader, NeverActivatedData),
      SheetOf(NoActivatedHeader, FreshData),
      SheetOf(NoTerminatedHeader, FreshData) }

\* row[columnIndex] with a 0-based index; a cell past the end of the row (or at
\* index -1) is undefined, which every reader treats as the empty string.
Cell(row, columnIndex) ==
    IF columnIndex + 1 \in 1..Len(row) THEN row[columnIndex + 1] ELSE <<>>

\* headers.findIndex(header => header && header.toLowerCase().includes(sub)),
\* scanning from the 0-based index `from`.
RECURSIVE findIndexFrom(_, _, _)
findIndexFrom(headers, sub, from) ==
    IF from >= Len(headers) THEN -1
    ELSE IF headers[from + 1] # <<>> /\ lowerIncludes(headers[from + 1], sub)
    THEN from
    ELSE findIndexFrom(headers, sub, from + 1)

\* Faulty variant of findIndex: the scan starts at the second header.
findIndexFromSecond(headers, sub) == findIndexFrom(headers, sub, 1)

findIndex(headers, sub) == findIndexFrom(headers, sub, 0)

sClientOrder == <<"c", "l", "i", "e", "n", "t", "o", "r", "d", "e", "r">>
sSerial      == <<"s", "e", "r", "i", "a", "l">>
sToken       == <<"t", "o", "k", "e", "n">>
sActivated   == <<"a", "c", "t", "i", "v", "a", "t", "e", "d">>
sTerminated  == <<"t", "e", "r", "m", "i", "n", "a", "t", "e", "d">>

\* Result of a lookup: outcome is "null" (no such row), "throw" (a mandatory
\* column is missing) or "found".
NoRow ==
    [outcome |-> "null", rowIndex |-> 0, tokens |-> 0, currentTokens |-> 0,
     tokenColumnIndex |-> -1, activatedColumnIndex |-> -1,
     terminatedColumnIndex |-> -1, isActivated |-> FALSE, isTerminated |-> FALSE]

\* findOrderInSheet on the rows a values.get returned.
findOrderInSheet(sheet, orderNumber) ==
    IF Len(sheet) = 0 THEN NoRow
    ELSE
    LET headers               == sheet[1]
        orderColumnIndex      == findIndex(headers, sClientOrder)
        tokensColumnIndex     == findIndex(headers, sToken)
        activatedColumnIndex  == findIndex(headers, sActivated)
        terminatedColumnIndex == findIndex(headers, sTerminated)
        match(i) == replaceHash(Cell(sheet[i], orderColumnIndex))
                        = replaceHash(orderNumber)
    IN  IF orderColumnIndex = -1 THEN [NoRow EXCEPT !.outcome = "throw"]
        ELSE IF \E i \in 2..Len(sheet) : match(i)
        THEN LET i   == CHOOSE i \in 2..Len(sheet) :
                            match(i) /\ \A k \in 2..(i - 1) : ~match(k)
                 row == sheet[i]
             IN  [outcome |-> "found",
                  rowIndex |-> i,
                  tokens |-> IF tokensColumnIndex # -1
                             THEN parseIntOr0(Cell(row, tokensColumnIndex))
                             ELSE 1000,
                  currentTokens |-> 0,
                  tokenColumnIndex |-> tokensColumnIndex,
                  activatedColumnIndex |-> activatedColumnIndex,
                  terminatedColumnIndex |-> terminatedColumnIndex,
                  isActivated |-> IF activatedColumnIndex # -1
                                  THEN Cell(row, activatedColumnIndex) = TRUE_
                                  ELSE FALSE,
                  isTerminated |-> IF terminatedColumnIndex # -1
                                   THEN Cell(row, terminatedColumnIndex) = TRUE_
                                   ELSE FALSE]
        ELSE NoRow

\* Faulty variant of findOrderRowBySerial: the last matching row is returned.
findOrderRowBySerialLast(sheet, serialNumber) ==
    IF Len(sheet) = 0 THEN NoRow
    ELSE
    LET headers               == sheet[1]
        serialColumnIndex     == findIndex(headers, sSerial)
        tokenColumnIndex      == findIndex(headers, sToken)
        activatedColumnIndex  == findIndex(headers, sActivated)
        terminatedColumnIndex == findIndex(headers, sTerminated)
        match(i) == Cell(sheet[i], serialColumnIndex) = serialNumber
    IN  IF serialColumnIndex = -1 \/ tokenColumnIndex = -1
        THEN [NoRow EXCEPT !.outcome = "throw"]
        ELSE IF \E i \in 2..Len(sheet) : match(i)
        THEN LET i   == CHOOSE i \in 2..Len(sheet) :
                            match(i) /\ \A k \in (i + 1)..Len(sheet) : ~match(k)
                 row == sheet[i]
                 tokens == parseIntOr0(Cell(row, tokenColumnIndex))
             IN  [outcome |-> "found",
                  rowIndex |-> i,
                  tokens |-> tokens,
                  currentTokens |-> tokens,
                  tokenColumnIndex |-> tokenColumnIndex,
                  activatedColumnIndex |-> activatedColumnIndex,
                  terminatedColumnIndex |-> terminatedColumnIndex,
                  isActivated |-> IF activatedColumnIndex # -1
                                  THEN Cell(row, activatedColumnIndex) = TRUE_
                                  ELSE FALSE,
                  isTerminated |-> IF terminatedColumnIndex # -1
                                   THEN Cell(row, terminatedColumnIndex) = TRUE_
                                   ELSE FALSE]
        ELSE NoRow

\* Faulty variant of findOrderRowBySerial: a serial in no row is given the first
\* data row.
findOrderRowBySerialDefaulting(sheet, serialNumber) ==
    IF Len(sheet) = 0 THEN NoRow
    ELSE
    LET headers               == sheet[1]
        serialColumnIndex     == findIndex(headers, sSerial)
        tokenColumnIndex      == findIndex(headers, sToken)
        activatedColumnIndex  == findIndex(headers, sActivated)
        terminatedColumnIndex == findIndex(headers, sTerminated)
        hit(i)   == Cell(sheet[i], serialColumnIndex) = serialNumber
        match(i) == hit(i) \/ (i = 2 /\ \A k \in 2..Len(sheet) : ~hit(k))
    IN  IF serialColumnIndex = -1 \/ tokenColumnIndex = -1
        THEN [NoRow EXCEPT !.outcome = "throw"]
        ELSE IF \E i \in 2..Len(sheet) : match(i)
        THEN LET i   == CHOOSE i \in 2..Len(sheet) :
                            match(i) /\ \A k \in 2..(i - 1) : ~match(k)
                 row == sheet[i]
                 tokens == parseIntOr0(Cell(row, tokenColumnIndex))
             IN  [outcome |-> "found",
                  rowIndex |-> i,
                  tokens |-> tokens,
                  currentTokens |-> tokens,
                  tokenColumnIndex |-> tokenColumnIndex,
                  activatedColumnIndex |-> activatedColumnIndex,
                  terminatedColumnIndex |-> terminatedColumnIndex,
                  isActivated |-> IF activatedColumnIndex # -1
                                  THEN Cell(row, activatedColumnIndex) = TRUE_
                                  ELSE FALSE,
                  isTerminated |-> IF terminatedColumnIndex # -1
                                   THEN Cell(row, terminatedColumnIndex) = TRUE_
                                   ELSE FALSE]
        ELSE NoRow

\* Faulty variant of findOrderRowBySerial: a missing Serial or Token column is
\* answered like a serial that is in no row.
findOrderRowBySerialLenient(sheet, serialNumber) ==
    IF Len(sheet) = 0 THEN NoRow
    ELSE
    LET headers               == sheet[1]
        serialColumnIndex     == findIndex(headers, sSerial)
        tokenColumnIndex      == findIndex(headers, sToken)
        activatedColumnIndex  == findIndex(headers, sActivated)
        terminatedColumnIndex == findIndex(headers, sTerminated)
        match(i) == Cell(sheet[i], serialColumnIndex) = serialNumber
    IN  IF serialColumnIndex = -1 \/ tokenColumnIndex = -1
        THEN NoRow
        ELSE IF \E i \in 2..Len(sheet) : match(i)
        THEN LET i   == CHOOSE i \in 2..Len(sheet) :
                            match(i) /\ \A k \in 2..(i - 1) : ~match(k)
                 row == sheet[i]
                 tokens == parseIntOr0(Cell(row, tokenColumnIndex))
             IN  [outcome |-> "found",
                  rowIndex |-> i,
                  tokens |-> tokens,
                  currentTokens |-> tokens,
                  tokenColumnIndex |-> tokenColumnIndex,
                  activatedColumnIndex |-> activatedColumnIndex,
                  terminatedColumnIndex |-> terminatedColumnIndex,
                  isActivated |-> IF activatedColumnIndex # -1
                                  THEN Cell(row, activatedColumnIndex) = TRUE_
                                  ELSE FALSE,
                  isTerminated |-> IF terminatedColumnIndex # -1
                                   THEN Cell(row, terminatedColumnIndex) = TRUE_
                                   ELSE FALSE]
        ELSE NoRow

\* findOrderRowBySerial on the rows a values.get returned.
findOrderRowBySerial(sheet, serialNumber) ==
    IF Len(sheet) = 0 THEN NoRow
    ELSE
    LET headers               == sheet[1]
        serialColumnIndex     == findIndex(headers, sSerial)
        tokenColumnIndex      == findIndex(headers, sToken)
        activatedColumnIndex  == findIndex(headers, sActivated)
        terminatedColumnIndex == findIndex(headers, sTerminated)
        match(i) == Cell(sheet[i], serialColumnIndex) = serialNumber
    IN  IF serialColumnIndex = -1 \/ tokenColumnIndex = -1
        THEN [NoRow EXCEPT !.outcome = "throw"]
        ELSE IF \E i \in 2..Len(sheet) : match(i)
        THEN LET i   == CHOOSE i \in 2..Len(sheet) :
                            match(i) /\ \A k \in 2..(i - 1) : ~match(k)
                 row == sheet[i]
                 tokens == parseIntOr0(Cell(row, tokenColumnIndex))
             IN  [outcome |-> "found",
                  rowIndex |-> i,
                  tokens |-> tokens,
                  currentTokens |-> tokens,
                  tokenColumnIndex |-> tokenColumnIndex,
                  activatedColumnIndex |-> activatedColumnIndex,
                  terminatedColumnIndex |-> terminatedColumnIndex,
                  isActivated |-> IF activatedColumnIndex # -1
                                  THEN Cell(row, activatedColumnIndex) = TRUE_
                                  ELSE FALSE,
                  isTerminated |-> IF terminatedColumnIndex # -1
                                   THEN Cell(row, terminatedColumnIndex) = TRUE_
                                   ELSE FALSE]
        ELSE NoRow

\* The characters of codes 64..91: '@', the capital letters, '['.
CharCodes ==
    <<"@", "A", "B", "C", "D", "E", "F", "G", "H", "I", "J", "K", "L", "M",
      "N", "O", "P", "Q", "R", "S", "T", "U", "V", "W", "X", "Y", "Z", "[">>

\* String.fromCharCode on the codes 64..91.
fromCharCode(code) == CharCodes[code - 63]

\* Faulty variant of columnLetter: the letters are counted from B.
columnLetterFromB(columnIndex) == fromCharCode(66 + columnIndex)

\* const columnLetter = String.fromCharCode(65 + columnIndex)
columnLetter(columnIndex) == fromCharCode(65 + columnIndex)

\* The store's reading of the column of an A1 range: the place of its letter
\* among A..Z, counted from 0; -1 when it is no letter.
rangeColumn(letter) ==
    IF \E c \in 0..25 : CharCodes[c + 2] = letter
    THEN CHOOSE c \in 0..25 : CharCodes[c + 2] = letter
    ELSE -1

\* values.update of the single cell Sheet1!<columnLetter><rowIndex>.  The
\* store creates the rows and cells a write addresses beyond the data it
\* holds; a range whose column is no letter addresses no cell.
updateCell(sheet, rowIndex, columnIndex, value) ==
    LET column == rangeColumn(columnLetter(columnIndex))
        old == IF rowIndex \in 1..Len(sheet) THEN sheet[rowIndex] ELSE <<>>
        len == IF column + 1 > Len(old) THEN column + 1 ELSE Len(old)
        new == [j \in 1..len |->
                   IF j = column + 1 THEN value ELSE Cell(old, j - 1)]
    IN  IF column = -1 THEN sheet
        ELSE [i \in 1..(IF rowIndex > Len(sheet) THEN rowIndex ELSE Len(sheet)) |->
                 IF i = rowIndex THEN new
                 ELSE IF i \in 1..Len(sheet) THEN sheet[i] ELSE <<>>]

\* Faulty variant of updateTokensInSheet: the token write also puts FALSE
\* back in the terminated cell of the row.
updateTokensReopening(sheet, rowIndex, columnIndex, newTokenValue) ==
    LET terminatedColumnIndex == findIndex(sheet[1], sTerminated)
        written == updateCell(sheet, rowIndex, columnIndex,
                              NumberString(newTokenValue))
    IN  IF terminatedColumnIndex = -1 THEN written
        ELSE updateCell(written, rowIndex, terminatedColumnIndex, FALSE_)

\* Faulty variant of updateTokensInSheet: the value lands one column to the right.
updateTokensNextColumn(sheet, rowIndex, columnIndex, newTokenValue) ==
    updateCell(sheet, rowIndex, columnIndex + 1, NumberString(newTokenValue))

updateTokensInSheet(sheet, rowIndex, columnIndex, newTokenValue) ==
    updateCell(sheet, rowIndex, columnIndex, NumberString(newTokenValue))

\* Faulty variant of updateActivatedStatus: the cell is flipped, so a second
\* write puts FALSE back.
updateActivatedFlipping(sheet, rowIndex, columnIndex) ==
    IF columnIndex = -1 THEN sheet
    ELSE updateCell(sheet, rowIndex, columnIndex,
                    IF Cell(sheet[rowIndex], columnIndex) = TRUE_
                    THEN FALSE_ ELSE TRUE_)

\* Both flag writers return false without writing when the column is absent.
updateActivatedStatus(sheet, rowIndex, columnIndex) ==
    IF columnIndex = -1 THEN sheet
    ELSE updateCell(sheet, rowIndex, columnIndex, TRUE_)

updateTerminatedStatus(sheet, rowIndex, columnIndex) ==
    IF columnIndex = -1 THEN sheet
    ELSE updateCell(sheet, rowIndex, columnIndex, TRUE_)

\* Faulty variant of setUserTokensFallback: a serial no row carries is given
\* the row after the last one.
setUserTokensAppending(sheet, serialNumber) ==
    LET headers           == sheet[1]
        serialColumnIndex == findIndex(headers, sSerial)
        tokenColumnIndex  == findIndex(headers, sToken)
        match(i) == Cell(sheet[i], serialColumnIndex) = serialNumber
        i == IF \E k \in 2..Len(sheet) : match(k)
             THEN CHOOSE k \in 2..Len(sheet) : match(k)
             ELSE Len(sheet) + 1
    IN  [NoRow EXCEPT !.outcome = "found", !.rowIndex = i,
                      !.tokenColumnIndex = tokenColumnIndex]

\* The second scan of setUserTokens, run when findOrderRowBySerial found no row:
\* any row whose serial cell equals the serial, else the throw.
setUserTokensFallback(sheet, serialNumber) ==
    LET headers           == sheet[1]
        serialColumnIndex == findIndex(headers, sSerial)
        tokenColumnIndex  == findIndex(headers, sToken)
        match(i) == Cell(sheet[i], serialColumnIndex) = serialNumber
    IN  IF \E i \in 2..Len(sheet) : match(i)
        THEN LET i == CHOOSE i \in 2..Len(sheet) :
                          match(i) /\ \A k \in 2..(i - 1) : ~match(k)
             IN  [NoRow EXCEPT !.outcome = "found", !.rowIndex = i,
                               !.tokenColumnIndex = tokenColumnIndex,
                               !.currentTokens =
                                   parseIntOr0(Cell(sheet[i], tokenColumnIndex))]
        ELSE [NoRow EXCEPT !.outcome = "throw"]

\* Faulty variant of eligibility: the terminated flag is looked at first.
eligibilityTerminatedFirst(isActivated, isTerminated) ==
    IF isTerminated THEN "Order is terminated and cannot be reactivated"
    ELSE IF isActivated THEN "Order already activated"
    ELSE "eligible"

\* Faulty variant of insufficient: only an empty balance is refused.
insufficientWhenEmpty(currentTokens, tokens_to_consume) ==
    currentTokens <= 0

\* Faulty variant of shouldTerminate: a balance of exactly 0 terminates too.
shouldTerminateAtZero(newTokenValue) == newTokenValue <= 0

\* Faulty variant of isAccountActive: the terminated flag is ignored.
isAccountActiveByBalance(isTerminated, currentTokens) ==
    currentTokens > 0

\* Lines 565-587: the eligibility checks of a claim, in the order the handler
\* makes them; the result is the error sent, or "eligible".
eligibility(isActivated, isTerminated) ==
    IF isActivated THEN "Order already activated"
    ELSE IF isTerminated THEN "Order is terminated and cannot be reactivated"
    ELSE "eligible"

\* Faulty variant of insufficient: a request for one token more than the balance
\* passes.
insufficientOffByOne(currentTokens, tokens_to_consume) ==
    currentTokens + 1 < tokens_to_consume

\* Line 685: the sufficiency check of consume.
insufficient(currentTokens, tokens_to_consume) ==
    currentTokens < tokens_to_consume

\* Line 705: the condition under which consume terminates the account.
shouldTerminate(newTokenValue) == newTokenValue < 0

\* Line 1011: the validity verdict of validate.
isAccountActive(isTerminated, currentTokens) ==
    ~isTerminated /\ currentTokens > 0


(***************************************************************************)
(* State                                                                   *)
(***************************************************************************)
VARIABLES
    rows,    \* the table in the store, header row first
    sheets,  \* TRUE when the shared store-client handle is non-null
    startup, \* where initializeGoogleSheets stands
    pc,      \* per request: the await its handler is suspended at
    req,     \* per request: the body of the request
    loc,     \* per request: the handler's local variables
    resp,    \* per request: the response sent
    wrote,   \* per request: the cell writes it has had applied, in order
    prior    \* per request: the requests already answered when it arrived

vars == <<rows, sheets, startup, pc, req, loc, resp, wrote, prior>>

\* Request bodies.  Orders "7" and "#8" differ from the stored "#7" and "8" by
\* the leading '#'; order "9" and serial S9 are in no row; <<>> is a missing
\* field; amounts 0 and -1 are not positive.
ClaimInputs ==
    { <<<<"7">>, S1>>, <<<<"7">>, S2>>, <<<<"7">>, S9>>, <<<<"#", "8">>, S2>>,
      <<<<"9">>, S1>>, <<<<>>, S1>> }
ConsumeInputs ==
    { <<S1, -1>>, <<S1, 0>>, <<S1, 1>>, <<S1, GRANT>>, <<S2, 1>>, <<S2, GRANT>>,
      <<S9, 1>> }
ValidateInputs == {S1, S2, S9, <<>>}

NoReq == [op |-> "none", order_number |-> <<>>, serial_number |-> <<>>,
          tokens_to_consume |-> 0]

NoLoc == [orderInfo |-> NoRow, orderRowInfo |-> NoRow, newTokenValue |-> 0]

NoResp == [status |-> 0, error |-> "pending", details |-> "", success |-> FALSE,
           valid |-> FALSE, tokens |-> 0, previous |-> 0, requested |-> 0,
           was_terminated |-> FALSE, is_terminated |-> FALSE, source |-> ""]

Response(status, error) == [NoResp EXCEPT !.status = status, !.error = error]

Failure(status, error, details) ==
    [NoResp EXCEPT !.status = status, !.error = error, !.details = details]

\* Faulty variant of StoreFailure: the catch swallows the rejection and answers
\* success.
StoreFailureSwallowed(op) ==
    [Response(200, "") EXCEPT !.success = TRUE]

\* The 500 response of a handler's catch when a store call rejects.
StoreFailure(op) ==
    Failure(500,
        CASE op = "claim"   -> "Token claiming failed"
          [] op = "consume" -> "Google Sheets token consumption failed"
          [] OTHER          -> "Google Sheets validation failed",
        "store call rejected")

Done == {r \in Req : pc[r] = "done"}

\* The awaits that are pending store calls.
ReadPcs  == {"claim_findSerial", "claim_fallback"}
WritePcs == {"claim_setTokens", "claim_setActivated",
             "consume_setTokens", "consume_setTerminated"}

Init ==
    /\ rows \in Sheets
    /\ sheets = TRUE
    /\ startup = "returned_true"
    /\ pc = [r \in Req |-> "idle"]
    /\ req = [r \in Req |-> NoReq]
    /\ loc = [r \in Req |-> NoLoc]
    /\ resp = [r \in Req |-> NoResp]
    /\ wrote = [r \in Req |-> <<>>]
    /\ prior = [r \in Req |-> {}]

\* Request r arrives: requests are numbered in order of arrival.
Arrives(r, body) ==
    /\ pc[r] = "idle"
    /\ IF r = 1 THEN TRUE ELSE pc[r - 1] # "idle"
    /\ req' = [req EXCEPT ![r] = body]
    /\ prior' = [prior EXCEPT ![r] = Done]

\* The handler of r sends `response` and ends.
Respond(r, response) ==
    /\ pc' = [pc EXCEPT ![r] = "done"]
    /\ resp' = [resp EXCEPT ![r] = response]
    /\ UNCHANGED loc

\* The handler of r suspends at the await `at` with locals `locals`.
Await(r, at, locals) ==
    /\ pc' = [pc EXCEPT ![r] = at]
    /\ loc' = [loc EXCEPT ![r] = locals]
    /\ UNCHANGED resp

\* The pending values.update of r is applied to the table.
Applied(r, sheet, rowIndex, columnIndex) ==
    /\ rows' = sheet
    /\ wrote' = [wrote EXCEPT ![r] =
                    Append(@, [rowIndex |-> rowIndex, columnIndex |-> columnIndex,
                               value |-> Cell(sheet[rowIndex], columnIndex)])]

(***************************************************************************)
(* POST /api/claim-tokens                                                  *)
(***************************************************************************)
\* Lines 526-594: the request is validated and findOrderInSheet reads the table
\* (`ok`: its values.get resolves), then the eligibility checks, then
\* setUserTokens issues the values.get of findOrderRowBySerial.  The handler
\* touches no shared state before its first read, so the arrival is taken
\* together with that read.
ClaimTokens(r, order_number, serial_number, ok) ==
    /\ Arrives(r, [NoReq EXCEPT !.op = "claim", !.order_number = order_number,
                                !.serial_number = serial_number])
    /\ LET orderInfo == findOrderInSheet(rows, order_number)
       IN  CASE order_number = <<>> \/ serial_number = <<>> ->
                    Respond(r, Response(400,
                        "Order number, serial number, and device ID are required"))
             [] order_number # <<>> /\ serial_number # <<>> /\ ~sheets ->
                    Respond(r, Response(500,
                        "Token claiming service temporarily unavailable"))
             [] order_number # <<>> /\ serial_number # <<>> /\ sheets /\ ~ok ->
                    Respond(r, StoreFailure("claim"))
             [] OTHER ->
                CASE orderInfo.outcome = "throw" ->
                        Respond(r, Failure(500, "Token claiming failed",
                            "Could not find Order column in spreadsheet"))
                  [] orderInfo.outcome = "null" ->
                        Respond(r, Response(200, "Order number not found"))
                  [] orderInfo.outcome = "found"
                       /\ eligibility(orderInfo.isActivated, orderInfo.isTerminated)
                              # "eligible" ->
                        Respond(r, Response(200,
                            eligibility(orderInfo.isActivated, orderInfo.isTerminated)))
                  [] OTHER ->
                        Await(r, "claim_findSerial",
                              [loc[r] EXCEPT !.orderInfo = orderInfo])
    /\ UNCHANGED <<rows, sheets, startup, wrote>>

\* Lines 377-391: findOrderRowBySerial returns inside setUserTokens; the token
\* update is issued, or the fallback values.get when no row was found.
ClaimSerialLookup(r) ==
    /\ pc[r] = "claim_findSerial"
    /\ LET orderRowInfo == findOrderRowBySerial(rows, req[r].serial_number)
       IN  CASE orderRowInfo.outcome = "throw" ->
                    Respond(r, Failure(500, "Token claiming failed",
                        "Could not find Serial or Token columns in spreadsheet"))
             [] orderRowInfo.outcome = "found" ->
                    Await(r, "claim_setTokens",
                          [loc[r] EXCEPT !.orderRowInfo = orderRowInfo])
             [] OTHER -> Await(r, "claim_fallback", loc[r])
    /\ UNCHANGED <<rows, sheets, startup, req, wrote, prior>>

\* Lines 393-415: the fallback scan of setUserTokens.
ClaimFallbackScan(r) ==
    /\ pc[r] = "claim_fallback"
    /\ LET found == setUserTokensFallback(rows, req[r].serial_number)
       IN  IF found.outcome = "found"
           THEN Await(r, "claim_setTokens", [loc[r] EXCEPT !.orderRowInfo = found])
           ELSE Respond(r, Failure(500, "Token claiming failed",
                    "Serial number not found in spreadsheet"))
    /\ UNCHANGED <<rows, sheets, startup, req, wrote, prior>>

\* Faulty variant of ClaimSetTokens: the activated update is sent first, the
\* token update after it.
ClaimSetActivatedFirst(r) ==
    /\ pc[r] = "claim_setTokens"
    /\ IF loc[r].orderInfo.activatedColumnIndex # -1 /\ wrote[r] = <<>>
       THEN /\ LET at == loc[r].orderInfo
               IN  Applied(r, updateActivatedStatus(rows, at.rowIndex,
                                                    at.activatedColumnIndex),
                           at.rowIndex, at.activatedColumnIndex)
            /\ Await(r, "claim_setTokens", loc[r])
       ELSE /\ LET at == loc[r].orderRowInfo
               IN  Applied(r, updateTokensInSheet(rows, at.rowIndex,
                                                  at.tokenColumnIndex, GRANT),
                           at.rowIndex, at.tokenColumnIndex)
            /\ Respond(r, [Response(200, "") EXCEPT
                              !.success = TRUE, !.tokens = GRANT])
    /\ UNCHANGED <<sheets, startup, req, prior>>

\* Lines 382/408 and 596-615: the token update is applied; the activated update
\* is issued when the column exists, else the success response is sent.
ClaimSetTokens(r) ==
    /\ pc[r] = "claim_setTokens"
    /\ LET at == loc[r].orderRowInfo
       IN  Applied(r, updateTokensInSheet(rows, at.rowIndex, at.tokenColumnIndex, GRANT),
                   at.rowIndex, at.tokenColumnIndex)
    /\ IF loc[r].orderInfo.activatedColumnIndex # -1
       THEN Await(r, "claim_setActivated", loc[r])
       ELSE Respond(r, [Response(200, "") EXCEPT !.success = TRUE, !.tokens = GRANT])
    /\ UNCHANGED <<sheets, startup, req, prior>>

\* Lines 599-615: the activated update is applied and the success response sent.
ClaimSetActivated(r) ==
    /\ pc[r] = "claim_setActivated"
    /\ LET at == loc[r].orderInfo
       IN  Applied(r, updateActivatedStatus(rows, at.rowIndex, at.activatedColumnIndex),
                   at.rowIndex, at.activatedColumnIndex)
    /\ Respond(r, [Response(200, "") EXCEPT !.success = TRUE, !.tokens = GRANT])
    /\ UNCHANGED <<sheets, startup, req, prior>>


\* Faulty variant of ConsumeTokens: only a negative amount is refused.
ConsumeTokensZeroAllowed(r, serial_number, tokens_to_consume, ok) ==
    /\ Arrives(r, [NoReq EXCEPT !.op = "consume", !.serial_number = serial_number,
                                !.tokens_to_consume = tokens_to_consume])
    /\ LET orderRowInfo == findOrderRowBySerial(rows, serial_number)
           amount       == tokens_to_consume
       IN  CASE serial_number = <<>> ->
                    Respond(r, Response(400,
                        "Serial number, device ID, and tokens_to_consume (number) are required"))
             [] serial_number # <<>> /\ amount < 0 ->
                    Respond(r, Response(400, "tokens_to_consume must be positive"))
             [] serial_number # <<>> /\ amount >= 0 /\ ~sheets ->
                    Respond(r, [Response(200, "") EXCEPT
                        !.success = TRUE, !.source = "mock",
                        !.tokens = IF 1000 - amount > 0 THEN 1000 - amount ELSE 0])
             [] serial_number # <<>> /\ amount >= 0 /\ sheets /\ ~ok ->
                    Respond(r, StoreFailure("consume"))
             [] OTHER ->
                CASE orderRowInfo.outcome = "throw" ->
                        Respond(r, Failure(500, "Google Sheets token consumption failed",
                            "Could not find Serial or Token columns in spreadsheet"))
                  [] orderRowInfo.outcome = "null" ->
                        Respond(r, Response(404, "Serial number not found in order data"))
                  [] orderRowInfo.outcome = "found"
                       /\ insufficient(orderRowInfo.currentTokens, amount) ->
                        Respond(r, [Response(400, "Insufficient tokens") EXCEPT
                            !.tokens = orderRowInfo.currentTokens,
                            !.requested = amount])
                  [] OTHER ->
                        Await(r, "consume_setTokens",
                              [loc[r] EXCEPT
                                  !.orderRowInfo = orderRowInfo,
                                  !.newTokenValue = orderRowInfo.currentTokens - amount])
    /\ UNCHANGED <<rows, sheets, startup, wrote>>

(***************************************************************************)
(* POST /api/consume-tokens                                                *)
(***************************************************************************)
\* Lines 641-701: the request is validated and findOrderRowBySerial reads the
\* table (`ok`: its values.get resolves); the not-found and insufficient-tokens
\* responses; else the token update is issued.
ConsumeTokens(r, serial_number, tokens_to_consume, ok) ==
    /\ Arrives(r, [NoReq EXCEPT !.op = "consume", !.serial_number = serial_number,
                                !.tokens_to_consume = tokens_to_consume])
    /\ LET orderRowInfo == findOrderRowBySerial(rows, serial_number)
           amount       == tokens_to_consume
       IN  CASE serial_number = <<>> ->
                    Respond(r, Response(400,
                        "Serial number, device ID, and tokens_to_consume (number) are required"))
             [] serial_number # <<>> /\ amount <= 0 ->
                    Respond(r, Response(400, "tokens_to_consume must be positive"))
             [] serial_number # <<>> /\ amount > 0 /\ ~sheets ->
                    Respond(r, [Response(200, "") EXCEPT
                        !.success = TRUE, !.source = "mock",
                        !.tokens = IF 1000 - amount > 0 THEN 1000 - amount ELSE 0])
             [] serial_number # <<>> /\ amount > 0 /\ sheets /\ ~ok ->
                    Respond(r, StoreFailure("consume"))
             [] OTHER ->
                CASE orderRowInfo.outcome = "throw" ->
                        Respond(r, Failure(500, "Google Sheets token consumption failed",
                            "Could not find Serial or Token columns in spreadsheet"))
                  [] orderRowInfo.outcome = "null" ->
                        Respond(r, Response(404, "Serial number not found in order data"))
                  [] orderRowInfo.outcome = "found"
                       /\ insufficient(orderRowInfo.currentTokens, amount) ->
                        Respond(r, [Response(400, "Insufficient tokens") EXCEPT
                            !.tokens = orderRowInfo.currentTokens,
                            !.requested = amount])
                  [] OTHER ->
                        Await(r, "consume_setTokens",
                              [loc[r] EXCEPT
                                  !.orderRowInfo = orderRowInfo,
                                  !.newTokenValue = orderRowInfo.currentTokens - amount])
    /\ UNCHANGED <<rows, sheets, startup, wrote>>

\* Faulty variant of ConsumeUpdate: the token update writes the balance the
\* cell holds when the write is applied, less the amount, in place of the
\* value computed from the handler's earlier read.
ConsumeUpdateRereading(r) ==
    /\ pc[r] \in {"consume_setTokens", "consume_setTerminated"}
    /\ LET at       == loc[r].orderRowInfo
           newValue == parseIntOr0(Cell(rows[at.rowIndex], at.tokenColumnIndex))
                           - req[r].tokens_to_consume
           success(wasTerminated) ==
               [Response(200, "") EXCEPT
                   !.success = TRUE, !.source = "google_sheets",
                   !.tokens = newValue, !.previous = at.currentTokens,
                   !.requested = req[r].tokens_to_consume,
                   !.was_terminated = wasTerminated]
       IN  IF pc[r] = "consume_setTokens"
           THEN /\ Applied(r, updateTokensInSheet(rows, at.rowIndex,
                                                  at.tokenColumnIndex, newValue),
                           at.rowIndex, at.tokenColumnIndex)
                /\ Respond(r, success(FALSE))
           ELSE /\ Applied(r, updateTerminatedStatus(rows, at.rowIndex,
                                                     at.terminatedColumnIndex),
                           at.rowIndex, at.terminatedColumnIndex)
                /\ Respond(r, success(TRUE))
    /\ UNCHANGED <<sheets, startup, req, prior>>

\* Lines 701-733: a pending update of consume is applied: the token update,
\* after which the terminated update is issued when the account is to be
\* terminated, or the terminated update itself; then the success response.
ConsumeUpdate(r) ==
    /\ pc[r] \in {"consume_setTokens", "consume_setTerminated"}
    /\ LET at       == loc[r].orderRowInfo
           newValue == loc[r].newTokenValue
           success(wasTerminated) ==
               [Response(200, "") EXCEPT
                   !.success = TRUE, !.source = "google_sheets",
                   !.tokens = newValue, !.previous = at.currentTokens,
                   !.requested = req[r].tokens_to_consume,
                   !.was_terminated = wasTerminated]
       IN  IF pc[r] = "consume_setTokens"
           THEN /\ Applied(r, updateTokensInSheet(rows, at.rowIndex,
                                                  at.tokenColumnIndex, newValue),
                           at.rowIndex, at.tokenColumnIndex)
                /\ IF /\ shouldTerminate(newValue)
                      /\ at.terminatedColumnIndex # -1
                      /\ ~at.isTerminated
                   THEN Await(r, "consume_setTerminated", loc[r])
                   ELSE Respond(r, success(FALSE))
           ELSE /\ Applied(r, updateTerminatedStatus(rows, at.rowIndex,
                                                     at.terminatedColumnIndex),
                           at.rowIndex, at.terminatedColumnIndex)
                /\ Respond(r, success(TRUE))
    /\ UNCHANGED <<sheets, startup, req, prior>>

(***************************************************************************)
(* POST /api/validate                                                      *)
(***************************************************************************)
\* Lines 969-1033: the request is validated, findOrderRowBySerial reads the
\* table (`ok`: its values.get resolves) and the verdict is sent.
Validate(r, serial_number, ok) ==
    /\ Arrives(r, [NoReq EXCEPT !.op = "validate", !.serial_number = serial_number])
    /\ LET orderRowInfo == findOrderRowBySerial(rows, serial_number)
       IN  CASE serial_number = <<>> ->
                    Respond(r, Response(400, "Serial number and device ID are required"))
             [] serial_number # <<>> /\ ~sheets ->
                    Respond(r, [Response(200, "") EXCEPT
                        !.source = "mock",
                        !.valid = (Len(serial_number) > 5),
                        !.tokens = IF Len(serial_number) > 5 THEN 1000 ELSE 0])
             [] serial_number # <<>> /\ sheets /\ ~ok ->
                    Respond(r, StoreFailure("validate"))
             [] OTHER ->
                CASE orderRowInfo.outcome = "throw" ->
                        Respond(r, Failure(500, "Google Sheets validation failed",
                            "Could not find Serial or Token columns in spreadsheet"))
                  [] orderRowInfo.outcome = "null" ->
                        Respond(r, [Response(200, "Serial number not found") EXCEPT
                            !.source = "google_sheets"])
                  [] OTHER ->
                        Respond(r, [Response(200, "") EXCEPT
                            !.source = "google_sheets",
                            !.valid = isAccountActive(orderRowInfo.isTerminated,
                                                      orderRowInfo.currentTokens),
                            !.tokens = orderRowInfo.currentTokens,
                            !.is_terminated = orderRowInfo.isTerminated])
    /\ UNCHANGED <<rows, sheets, startup, wrote>>

(***************************************************************************)
(* Store failures                                                          *)
(***************************************************************************)
\* The pending values.get or values.update of r rejects: the helper rethrows
\* and the handler's catch (lines 617, 735, 1024) answers 500.  Nothing is
\* written by the rejected call.
StoreCallFails(r) ==
    /\ pc[r] \in ReadPcs \cup WritePcs
    /\ Respond(r, StoreFailure(req[r].op))
    /\ UNCHANGED <<rows, sheets, startup, req, wrote, prior>>

Next ==
    \/ \E r \in Req, b \in ClaimInputs, ok \in BOOLEAN :
           ClaimTokens(r, b[1], b[2], ok)
    \/ \E r \in Req : ClaimSerialLookup(r)
    \/ \E r \in Req : ClaimFallbackScan(r)
    \/ \E r \in Req : ClaimSetTokens(r)
    \/ \E r \in Req : ClaimSetActivated(r)
    \/ \E r \in Req, b \in ConsumeInputs, ok \in BOOLEAN :
           ConsumeTokens(r, b[1], b[2], ok)
    \/ \E r \in Req : ConsumeUpdate(r)
    \/ \E r \in Req, s \in ValidateInputs, ok \in BOOLEAN : Validate(r, s, ok)
    \/ \E r \in Req : StoreCallFails(r)

Spec == Init /\ [][Next]_vars


(***************************************************************************)
(* The record view of the table, read directly off the cells.              *)
(***************************************************************************)
\* 0-based index of the column whose header is exactly `name`, or -1.
Column(sheet, name) ==
    IF \E j \in 1..Len(sheet[1]) : sheet[1][j] = name
    THEN (CHOOSE j \in 1..Len(sheet[1]) : sheet[1][j] = name) - 1
    ELSE -1

DataRows(sheet) == 2..Len(sheet)

HasActivatedColumn  == Column(rows, hActivated) # -1
HasTerminatedColumn == Column(rows, hTerminated) # -1

Serial(sheet, i)  == Cell(sheet[i], Column(sheet, hSerial))
Balance(sheet, i) == parseIntOr0(Cell(sheet[i], Column(sheet, hToken)))
Activated(sheet, i) ==
    Column(sheet, hActivated) # -1 /\ Cell(sheet[i], Column(sheet, hActivated)) = TRUE_
Terminated(sheet, i) ==
    Column(sheet, hTerminated) # -1 /\ Cell(sheet[i], Column(sheet, hTerminated)) = TRUE_

\* A stored order cell and an order id name the same order: they differ at
\* most by the leading '#'.
SameOrder(a, b) ==
    (IF a # <<>> /\ a[1] = "#" THEN Tail(a) ELSE a)
        = (IF b # <<>> /\ b[1] = "#" THEN Tail(b) ELSE b)

\* The row of an order / of a serial: the first data row carrying it, 0 if none.
OrderRow(sheet, order) ==
    LET hit(i) == SameOrder(Cell(sheet[i], Column(sheet, hClientOrder)), order)
    IN  IF \E i \in DataRows(sheet) : hit(i)
        THEN CHOOSE i \in DataRows(sheet) : hit(i) /\ \A k \in 2..(i - 1) : ~hit(k)
        ELSE 0

SerialRow(sheet, serial) ==
    LET hit(i) == Serial(sheet, i) = serial
    IN  IF \E i \in DataRows(sheet) : hit(i)
        THEN CHOOSE i \in DataRows(sheet) : hit(i) /\ \A k \in 2..(i - 1) : ~hit(k)
        ELSE 0

\* Responses, by the names the specification gives them.
AlreadyActivated(response) == response.error = "Order already activated"
AlreadyTerminated(response) ==
    response.error = "Order is terminated and cannot be reactivated"
InsufficientTokens(response) == response.error = "Insufficient tokens"
RecordNotFound(response) ==
    /\ response.status = 500
    /\ response.details = "Serial number not found in spreadsheet"
StoreRejected(response) == response.details = "store call rejected"

Claims    == {r \in Req : req[r].op = "claim"}
Consumes  == {r \in Req : req[r].op = "consume"}
Validates == {r \in Req : req[r].op = "validate"}

\* Request r takes the step, as its first read / as its answer.
Arriving(r)  == pc[r] = "idle" /\ pc'[r] # "idle"
Answering(r) == pc[r] # "done" /\ pc'[r] = "done"

\* r is a claim that arrived after a claim q on the same order had succeeded.
SecondClaim(q, r) ==
    /\ q \in Claims /\ r \in Claims /\ q \in prior[r]
    /\ resp[q].success
    /\ SameOrder(req[q].order_number, req[r].order_number)


(***************************************************************************)
(* Claims                                                                  *)
(***************************************************************************)
\* C1 (as stated): for every order, a claim that arrives after a claim on the
\* same order has succeeded is answered 'Order already activated' and writes
\* nothing to the store.
C1_SecondClaimAlwaysRejected ==
    \A q, r \in Req :
        SecondClaim(q, r) /\ ~StoreRejected(resp[r]) =>
            /\ wrote[r] = <<>>
            /\ pc[r] = "done" => AlreadyActivated(resp[r])

\* C1 (amended): when the header row has an activated column, a claim that
\* arrives after a claim on the same order has succeeded is answered 'Order
\* already activated' (its read completing) and writes nothing to the store.
C1_SecondClaimRejected ==
    HasActivatedColumn => C1_SecondClaimAlwaysRejected

\* A second claim on a claimed order has been answered 'Order already
\* activated', the balance still being the grant of the first.
C1_Witness ==
    \E q, r \in Req :
        /\ SecondClaim(q, r) /\ HasActivatedColumn
        /\ pc[r] = "done" /\ AlreadyActivated(resp[r])
        /\ Balance(rows, SerialRow(rows, req[q].serial_number)) = GRANT

\* C2 (as stated): a claim whose order's record has terminated = TRUE is
\* answered 'Order is terminated and cannot be reactivated' whatever its
\* activated flag, and writes nothing.
C2_TerminatedWinsOverActivated ==
    [][\A r \in Req :
          LET row == OrderRow(rows, req'[r].order_number)
          IN  ( /\ Arriving(r) /\ req'[r].op = "claim"
                /\ ~StoreRejected(resp'[r])
                /\ row # 0 /\ Terminated(rows, row) )
              => /\ Answering(r) /\ AlreadyTerminated(resp'[r])
                 /\ rows' = rows]_vars

\* C2 (amended): a claim whose order's record has terminated = TRUE is rejected
\* without any store write: with 'Order already activated' when the record's
\* activated flag is TRUE (that check comes first), and with 'Order is
\* terminated and cannot be reactivated' otherwise.
C2_TerminatedClaimRejected ==
    [][\A r \in Req :
          LET row == OrderRow(rows, req'[r].order_number)
          IN  ( /\ Arriving(r) /\ req'[r].op = "claim"
                /\ ~StoreRejected(resp'[r])
                /\ row # 0 /\ Terminated(rows, row) )
              => /\ Answering(r) /\ rows' = rows
                 /\ IF Activated(rows, row)
                    THEN AlreadyActivated(resp'[r])
                    ELSE AlreadyTerminated(resp'[r])]_vars

\* Both cases have been answered: a claim on a terminated, activated record
\* and a claim on a terminated, never activated one.
C2_Witness ==
    \E r \in Claims :
        LET row == OrderRow(rows, req[r].order_number)
        IN  /\ pc[r] = "done" /\ row # 0 /\ Terminated(rows, row)
            /\ wrote[r] = <<>>
            /\ \/ Activated(rows, row) /\ AlreadyActivated(resp[r])
               \/ ~Activated(rows, row) /\ AlreadyTerminated(resp[r])


\* C3 (as stated): a consume that passes the sufficiency check and leaves a
\* balance <= 0 on a record it read as not terminated, the table having a
\* terminated column, persists terminated = TRUE and reports
\* was_terminated = true.
C3_TerminatesAtZero ==
    \A r \in Consumes :
        ( /\ pc[r] = "done" /\ resp[r].success
          /\ resp[r].tokens <= 0
          /\ ~loc[r].orderRowInfo.isTerminated
          /\ HasTerminatedColumn )
        => /\ resp[r].was_terminated
           /\ Terminated(rows, SerialRow(rows, req[r].serial_number))

\* C4: a consume whose amount exceeds the balance its read finds is answered
\* 'Insufficient tokens' with that balance and the requested amount, and its
\* step changes no cell of the table.
C4_InsufficientLeavesStoreAlone ==
    [][\A r \in Req :
          LET row == SerialRow(rows, req'[r].serial_number)
          IN  ( /\ Arriving(r) /\ req'[r].op = "consume"
                /\ ~StoreRejected(resp'[r])
                /\ row # 0
                /\ req'[r].tokens_to_consume > Balance(rows, row) )
              => /\ Answering(r) /\ InsufficientTokens(resp'[r])
                 /\ resp'[r].tokens = Balance(rows, row)
                 /\ resp'[r].requested = req'[r].tokens_to_consume
                 /\ rows' = rows]_vars

\* A consume of the full grant from a balance of 1 has been refused.
C4_Witness ==
    \E r \in Consumes :
        /\ pc[r] = "done" /\ InsufficientTokens(resp[r])
        /\ resp[r].tokens = 1 /\ resp[r].requested = GRANT
        /\ wrote[r] = <<>>
        /\ Balance(rows, SerialRow(rows, req[r].serial_number)) = 1

\* The cell writes of a successful claim r: the token cell of the serial's
\* row set to "500000", then (activated column present) the activated cell of
\* the order's row set to "TRUE".
GrantWritten(r) ==
    /\ Len(wrote[r]) >= 1
    /\ wrote[r][1] = [rowIndex |-> SerialRow(rows, req[r].serial_number),
                      columnIndex |-> Column(rows, hToken),
                      value |-> <<"5", "0", "0", "0", "0", "0">>]

ActivationWritten(r) ==
    /\ Len(wrote[r]) = 2
    /\ wrote[r][2] = [rowIndex |-> OrderRow(rows, req[r].order_number),
                      columnIndex |-> Column(rows, hActivated),
                      value |-> TRUE_]
    /\ Activated(rows, OrderRow(rows, req[r].order_number))

\* C5 (as stated): a successful claim has set the token cell of the serial's
\* row to exactly 500000, whatever it held, and has set activated = TRUE on the
\* order's row.
C5_GrantAndActivation ==
    \A r \in Claims :
        pc[r] = "done" /\ resp[r].success =>
            GrantWritten(r) /\ ActivationWritten(r)

\* C5 (amended): a successful claim has set the token cell of the serial's row
\* to exactly 500000, whatever it held, and, when the header row has an
\* activated column, has set activated = TRUE on the order's row; without that
\* column the grant is its only write.
C5_GrantOverwrites ==
    \A r \in Claims :
        pc[r] = "done" /\ resp[r].success =>
            /\ GrantWritten(r)
            /\ IF HasActivatedColumn THEN ActivationWritten(r)
               ELSE Len(wrote[r]) = 1

\* A claim has succeeded on a serial whose row held a positive balance, which
\* the grant replaced.
C5_Witness ==
    \E r \in Claims :
        /\ pc[r] = "done" /\ resp[r].success
        /\ loc[r].orderRowInfo.currentTokens > 0
        /\ HasActivatedColumn
        /\ Activated(rows, OrderRow(rows, req[r].order_number))
        /\ Balance(rows, SerialRow(rows, req[r].serial_number)) = GRANT

\* C6: a claim whose serial is in no data row never changes the table; once
\* its order was found eligible it issues no write and, its reads completing,
\* ends with the 500 'Serial number not found in spreadsheet', never a success.
C6_NoFabricatedRecord ==
    [][\A r \in Req :
          ( /\ req'[r].op = "claim" /\ pc'[r] # pc[r]
            /\ SerialRow(rows, req'[r].serial_number) = 0 )
          => /\ rows' = rows
             /\ pc'[r] \notin {"claim_setTokens", "claim_setActivated"}
             /\ Answering(r) => ~resp'[r].success
             /\ ( /\ Answering(r)
                  /\ pc[r] \in {"claim_findSerial", "claim_fallback"}
                  /\ ~StoreRejected(resp'[r]) )
                => pc[r] = "claim_fallback" /\ RecordNotFound(resp'[r])]_vars

\* A claim on an eligible order, for a serial no row carries, has ended with
\* the not-found failure; the table has its two data rows and the order is
\* still unclaimed.
C6_Witness ==
    \E r \in Claims :
        LET row == OrderRow(rows, req[r].order_number)
        IN  /\ pc[r] = "done" /\ RecordNotFound(resp[r])
            /\ SerialRow(rows, req[r].serial_number) = 0
            /\ row # 0 /\ ~Activated(rows, row) /\ ~Terminated(rows, row)
            /\ wrote[r] = <<>>
            /\ Len(rows) = 3


C8_TerminationSticky ==
    [][\A i \in DataRows(rows) :
          Terminated(rows, i) =>
              /\ Terminated(rows', i)
              /\ Serial(rows', i) = Serial(rows, i)
              /\ \A r \in Req :
                    ( /\ Arriving(r) /\ req'[r].op = "validate"
                      /\ ~StoreRejected(resp'[r])
                      /\ SerialRow(rows, req'[r].serial_number) = i )
                    => ~resp'[r].valid /\ resp'[r].is_terminated]_vars

\* A claim has re-credited the token cell of a terminated row to the grant, and
\* a validate that arrived after it has still answered invalid and terminated.
C8_Witness ==
    \E q \in Claims, r \in Validates :
        LET row == SerialRow(rows, req[r].serial_number)
        IN  /\ q \in prior[r] /\ resp[q].success
            /\ req[q].serial_number = req[r].serial_number
            /\ pc[r] = "done"
            /\ ~resp[r].valid /\ resp[r].is_terminated
            /\ resp[r].tokens = GRANT
            /\ Terminated(rows, row)

\* The writes applied to the terminated cell of row i, over all requests.
TerminatedWrites(i) ==
    UNION { { <<r, k>> : k \in { k \in 1..Len(wrote[r]) :
                                    /\ wrote[r][k].rowIndex = i
                                    /\ wrote[r][k].columnIndex =
                                           Column(rows, hTerminated) } } :
            r \in Req }

BothReadSameBalance(q, r) ==
    /\ q \in Consumes /\ r \in Consumes /\ q # r
    /\ req[q].serial_number = req[r].serial_number
    /\ pc[q] = "done" /\ resp[q].success
    /\ pc[r] = "done" /\ resp[r].success
    /\ resp[q].previous = resp[r].previous
    /\ \A x \in Req \ {q, r} :
          \A k \in 1..Len(wrote[x]) :
              ~ ( /\ wrote[x][k].rowIndex = SerialRow(rows, req[q].serial_number)
                  /\ wrote[x][k].columnIndex = Column(rows, hToken) )

\* C10: when two consumes of amounts a and b on one serial both read balance
\* B and both succeed, the stored balance ends at B - a or B - b: one of the
\* two deductions is lost.
C10_LostUpdate ==
    \A q, r \in Req :
        BothReadSameBalance(q, r) =>
            LET B == resp[q].previous
            IN  Balance(rows, SerialRow(rows, req[q].serial_number))
                    \in {B - req[q].tokens_to_consume, B - req[r].tokens_to_consume}

\* Two consumes of 1 from a balance of 500000 have both reported success with
\* new balance 499999, and the store holds 499999, not 499998.
C10_Witness ==
    \E q, r \in Req :
        /\ BothReadSameBalance(q, r)
        /\ resp[q].previous = GRANT
        /\ req[q].tokens_to_consume = 1 /\ req[r].tokens_to_consume = 1
        /\ resp[q].tokens = GRANT - 1 /\ resp[r].tokens = GRANT - 1
        /\ Balance(rows, SerialRow(rows, req[q].serial_number)) = GRANT - 1


\* The write request r has applied in this step, if it has applied one.
Writes(r) == Len(wrote'[r]) > Len(wrote[r])
LastWrite(r) == wrote'[r][Len(wrote'[r])]

\* C11: the activated cell of a row never leaves TRUE, every write into the
\* activated column writes TRUE, and the cell goes from not-TRUE to TRUE only
\* in the step in which a claim on that row's order is answered success.
C11_ActivatedOnlyByClaim ==
    [][/\ \A i \in DataRows(rows) :
             /\ Activated(rows, i) => Activated(rows', i)
             /\ ~Activated(rows, i) /\ Activated(rows', i) =>
                    \E r \in Req :
                        /\ req[r].op = "claim"
                        /\ OrderRow(rows, req[r].order_number) = i
                        /\ Answering(r) /\ resp'[r].success
       /\ \A r \in Req :
             Writes(r) /\ LastWrite(r).columnIndex = Column(rows, hActivated) =>
                 LastWrite(r).value = TRUE_]_vars

\* Two overlapping claims on one order have both written its activated cell,
\* which holds TRUE.
C11_Witness ==
    \E q, r \in Claims :
        /\ q # r /\ q \notin prior[r] /\ r \notin prior[q]
        /\ SameOrder(req[q].order_number, req[r].order_number)
        /\ pc[q] = "done" /\ resp[q].success /\ Len(wrote[q]) = 2
        /\ pc[r] = "done" /\ resp[r].success /\ Len(wrote[r]) = 2
        /\ Activated(rows, OrderRow(rows, req[r].order_number))

C13_NoConsumeOnceTerminated ==
    \A r \in Consumes :
        loc[r].orderRowInfo.isTerminated =>
            wrote[r] = <<>> /\ ~resp[r].success

\* C14 (as stated): no step raises the balance of a row whose terminated cell
\* holds TRUE.
C14_TerminatedBalanceNeverRises ==
    [][\A i \in DataRows(rows) :
          Terminated(rows, i) => Balance(rows', i) <= Balance(rows, i)]_vars

C16_PartialUpdateDistinguished ==
    \A q, r \in Req :
        ( /\ pc[q] = "done" /\ StoreRejected(resp[q]) /\ wrote[q] # <<>>
          /\ pc[r] = "done" /\ StoreRejected(resp[r]) /\ wrote[r] = <<>>
          /\ loc[r].orderRowInfo.outcome = "found" )
        => resp[q] # resp[r]



(***************************************************************************)
(* The two locators on their own: findOrderInSheet and findOrderRowBySerial *)
(* applied to tables whose order and serial cells carry '#' in several     *)
(* places.                                                                 *)
(***************************************************************************)
A1         == <<"A", "1">>
HashA1     == <<"#", "A", "1">>
AHash1     == <<"A", "#", "1">>
HashAHash1 == <<"#", "A", "#", "1">>
HashHashA1 == <<"#", "#", "A", "1">>
B1         == <<"B", "1">>
HashS1     == <<"#", "S", "1">>
LowerS1    == <<"s", "1">>

OrderCells    == {A1, HashA1, AHash1, B1}
OrderQueries  == {A1, HashA1, AHash1, HashAHash1, HashHashA1, B1}
SerialQueries == {S1, HashS1, LowerS1}

\* Two data rows, serials "S1" and "#S1", every pair of order cells.
LookupSheets ==
    { SheetOf(FullHeader,
              << [serial |-> S1, order |-> c1, token |-> <<"1">>,
                  activated |-> FALSE_, terminated |-> FALSE_],
                 [serial |-> HashS1, order |-> c2, token |-> <<"2">>,
                  activated |-> FALSE_, terminated |-> FALSE_] >>) :
        c1 \in OrderCells, c2 \in OrderCells }

LookupInit ==
    /\ rows \in LookupSheets
    /\ sheets = TRUE
    /\ startup = "returned_true"
    /\ pc = [r \in Req |-> "idle"]
    /\ req = [r \in Req |-> NoReq]
    /\ loc = [r \in Req |-> NoLoc]
    /\ resp = [r \in Req |-> NoResp]
    /\ wrote = [r \in Req |-> <<>>]
    /\ prior = [r \in Req |-> {}]

\* Lines 130-224: one call of findOrderInSheet, its result kept in orderInfo.
FindOrder(r, orderNumber) ==
    /\ Arrives(r, [NoReq EXCEPT !.op = "findOrder", !.order_number = orderNumber])
    /\ pc' = [pc EXCEPT ![r] = "done"]
    /\ loc' = [loc EXCEPT ![r].orderInfo = findOrderInSheet(rows, orderNumber)]
    /\ UNCHANGED <<rows, sheets, startup, resp, wrote>>

\* Lines 227-300: one call of findOrderRowBySerial, its result kept in
\* orderRowInfo.
FindSerial(r, serialNumber) ==
    /\ Arrives(r, [NoReq EXCEPT !.op = "findSerial", !.serial_number = serialNumber])
    /\ pc' = [pc EXCEPT ![r] = "done"]
    /\ loc' = [loc EXCEPT ![r].orderRowInfo =
                              findOrderRowBySerial(rows, serialNumber)]
    /\ UNCHANGED <<rows, sheets, startup, resp, wrote>>

LookupNext ==
    \/ \E r \in Req, o \in OrderQueries : FindOrder(r, o)
    \/ \E r \in Req, s \in SerialQueries : FindSerial(r, s)

LookupSpec == LookupInit /\ [][LookupNext]_vars

OrderLookups  == {r \in Req : req[r].op = "findOrder" /\ pc[r] = "done"}
SerialLookups == {r \in Req : req[r].op = "findSerial" /\ pc[r] = "done"}

\* Lookups q and r gave the same answer: the same row, or both not found.
SameAnswer(q, r) ==
    /\ loc[q].orderInfo.outcome = loc[r].orderInfo.outcome
    /\ loc[q].orderInfo.rowIndex = loc[r].orderInfo.rowIndex

\* C17 (as stated): for every order id X, the lookups of X and of '#' + X in
\* one table give the same row, or both give not-found.
C17_HashInsensitive ==
    \A q, r \in OrderLookups :
        req[r].order_number = <<"#">> \o req[q].order_number => SameAnswer(q, r)

\* C17, for order ids X that contain no '#': the lookups of X and of '#' + X
\* give the same answer.
C17_HashFreeIds ==
    \A q, r \in OrderLookups :
        ( /\ req[r].order_number = <<"#">> \o req[q].order_number
          /\ \A k \in 1..Len(req[q].order_number) : req[q].order_number[k] # "#" )
        => SameAnswer(q, r)

\* "A1" and "#A1" have both been found, in the row whose cell holds "#A1".
C17_Witness ==
    \E q, r \in OrderLookups :
        /\ req[q].order_number = A1 /\ req[r].order_number = HashA1
        /\ loc[q].orderInfo.outcome = "found" /\ SameAnswer(q, r)
        /\ Cell(rows[loc[q].orderInfo.rowIndex], Column(rows, hClientOrder)) = HashA1

\* C18 (as stated): an order lookup finds a row exactly when some order cell
\* equals the query after one leading '#' is stripped from each, and then the
\* first such row; a serial lookup finds exactly the first row whose serial
\* cell is the query, character for character.
C18_LeadingHashOnly ==
    /\ \A r \in OrderLookups :
          /\ (loc[r].orderInfo.outcome = "found")
                 <=> (OrderRow(rows, req[r].order_number) # 0)
          /\ loc[r].orderInfo.outcome = "found" =>
                 loc[r].orderInfo.rowIndex = OrderRow(rows, req[r].order_number)
    /\ \A r \in SerialLookups :
          /\ (loc[r].orderRowInfo.outcome = "found")
                 <=> (SerialRow(rows, req[r].serial_number) # 0)
          /\ loc[r].orderRowInfo.outcome = "found" =>
                 loc[r].orderRowInfo.rowIndex = SerialRow(rows, req[r].serial_number)

\* C18, the serial half alone: a serial lookup finds exactly the first row
\* whose serial cell is the query, character for character.
C18_SerialRawEquality ==
    \A r \in SerialLookups :
        /\ (loc[r].orderRowInfo.outcome = "found")
               <=> (SerialRow(rows, req[r].serial_number) # 0)
        /\ loc[r].orderRowInfo.outcome = "found" =>
               loc[r].orderRowInfo.rowIndex = SerialRow(rows, req[r].serial_number)

\* "#S1" has been found in the second data row and "s1" in none.
C18_Witness ==
    \E q, r \in SerialLookups :
        /\ req[q].serial_number = HashS1 /\ loc[q].orderRowInfo.rowIndex = 3
        /\ req[r].serial_number = LowerS1 /\ loc[r].orderRowInfo.outcome = "null"



(***************************************************************************)
(* The handlers on tables the store owner got wrong: rows repeating an     *)
(* order or a serial, and header rows without the Serial or the            *)
(* ClientOrder column.                                                     *)
(***************************************************************************)
NoOrderHeader  == <<hSerial, hToken, hActivated, hTerminated>>
NoSerialHeader == <<hClientOrder, hToken, hActivated, hTerminated>>
NoKeysHeader   == <<hToken, hActivated, hTerminated>>

\* Order 7 is in the first two rows and serial S1 in the last two.
RepeatedData ==
    << [serial |-> S2, order |-> <<"#", "7">>, token |-> <<"0">>,
        activated |-> FALSE_, terminated |-> FALSE_],
       [serial |-> S1, order |-> <<"7">>, token |-> <<"1">>,
        activated |-> FALSE_, terminated |-> FALSE_],
       [serial |-> S1, order |-> <<"8">>, token |-> <<"2">>,
        activated |-> TRUE_, terminated |-> FALSE_] >>

\* Order 7 is activated in its first row and not in its second; serial S1 is
\* exhausted in its first row and not in its second.
RepeatedActivatedData ==
    << [serial |-> S1, order |-> <<"7">>, token |-> <<"0">>,
        activated |-> TRUE_, terminated |-> FALSE_],
       [serial |-> S1, order |-> <<"#", "7">>, token |-> <<"1">>,
        activated |-> FALSE_, terminated |-> FALSE_] >>

IrregularSheets ==
    { SheetOf(FullHeader, RepeatedData),
      SheetOf(FullHeader, RepeatedActivatedData),
      SheetOf(NoOrderHeader, FreshData),
      SheetOf(NoSerialHeader, FreshData),
      SheetOf(NoKeysHeader, FreshData) }

IrregularInit ==
    /\ rows \in IrregularSheets
    /\ sheets = TRUE
    /\ startup = "returned_true"
    /\ pc = [r \in Req |-> "idle"]
    /\ req = [r \in Req |-> NoReq]
    /\ loc = [r \in Req |-> NoLoc]
    /\ resp = [r \in Req |-> NoResp]
    /\ wrote = [r \in Req |-> <<>>]
    /\ prior = [r \in Req |-> {}]

IrregularSpec == IrregularInit /\ [][Next]_vars

\* Some order (some serial) is carried by more than one data row.
RepeatedOrder(order) ==
    Cardinality({i \in DataRows(rows) :
        SameOrder(Cell(rows[i], Column(rows, hClientOrder)), order)}) > 1
RepeatedSerial(serial) ==
    Cardinality({i \in DataRows(rows) : Serial(rows, i) = serial}) > 1

\* C19: the row a handler gets from a lookup is the first data row carrying
\* the order (the serial), numbered by its place in the row list, header row
\* included, counted from 1; and each write changes one cell, of that row: the
\* activated cell of the order's first row or a cell of the serial's first row.
C19_FirstMatchWins ==
    [][\A r \in Req :
          /\ loc'[r].orderInfo # loc[r].orderInfo =>
                 loc'[r].orderInfo.rowIndex = OrderRow(rows, req'[r].order_number)
          /\ loc'[r].orderRowInfo # loc[r].orderRowInfo =>
                 loc'[r].orderRowInfo.rowIndex =
                     SerialRow(rows, req'[r].serial_number)
          /\ Writes(r) =>
                 /\ LastWrite(r).rowIndex =
                        IF LastWrite(r).columnIndex = Column(rows, hActivated)
                        THEN OrderRow(rows, req[r].order_number)
                        ELSE SerialRow(rows, req[r].serial_number)
                 /\ Len(rows') = Len(rows)
                 /\ \A i \in 1..Len(rows), j \in 0..(Len(rows[1]) - 1) :
                        <<i, j>> # <<LastWrite(r).rowIndex, LastWrite(r).columnIndex>>
                            => Cell(rows'[i], j) = Cell(rows[i], j)]_vars

\* A claim naming a repeated order and a repeated serial has succeeded: it
\* wrote the grant into the serial's first row (the third row of the table) and
\* activated the order's first row (the second), and the later row of each
\* holds what it held.
C19_Witness ==
    \E r \in Claims :
        /\ pc[r] = "done" /\ resp[r].success
        /\ RepeatedOrder(req[r].order_number)
        /\ RepeatedSerial(req[r].serial_number)
        /\ wrote[r][1].rowIndex = 3 /\ wrote[r][2].rowIndex = 2
        /\ Balance(rows, 3) = GRANT /\ Balance(rows, 4) = 2
        /\ Activated(rows, 2) /\ ~Activated(rows, 3)

\* A well-formed request is answered the 500 of a schema error `details`, in
\* the step in which it arrives, and the table is left as it is.
SchemaError(r, details) ==
    /\ Answering(r)
    /\ resp'[r].status = 500 /\ resp'[r].details = details
    /\ ~resp'[r].success
    /\ rows' = rows /\ wrote'[r] = <<>>

\* C20: with no order column in the header row a claim is answered the schema
\* error 'Could not find Order column in spreadsheet'; with no serial column a
\* consume and a validate are answered 'Could not find Serial or Token columns
\* in spreadsheet'; neither writes, succeeds or answers not-found.
C20_MissingKeyColumnAborts ==
    [][\A r \in Req :
          Arriving(r) /\ ~StoreRejected(resp'[r]) =>
              /\ ( /\ req'[r].op = "claim"
                   /\ req'[r].order_number # <<>> /\ req'[r].serial_number # <<>>
                   /\ Column(rows, hClientOrder) = -1 )
                 => SchemaError(r, "Could not find Order column in spreadsheet")
              /\ ( /\ \/ req'[r].op = "consume" /\ req'[r].tokens_to_consume > 0
                      \/ req'[r].op = "validate"
                   /\ req'[r].serial_number # <<>>
                   /\ Column(rows, hSerial) = -1 )
                 => SchemaError(r,
                        "Could not find Serial or Token columns in spreadsheet")]_vars

\* On the table with neither column a claim and a consume have both been
\* answered their schema error.
C20_Witness ==
    \E q \in Claims, r \in Consumes :
        /\ Column(rows, hClientOrder) = -1 /\ Column(rows, hSerial) = -1
        /\ pc[q] = "done" /\ resp[q].status = 500
        /\ resp[q].details = "Could not find Order column in spreadsheet"
        /\ pc[r] = "done" /\ resp[r].status = 500
        /\ resp[r].details = "Could not find Serial or Token columns in spreadsheet"
        /\ wrote[q] = <<>> /\ wrote[r] = <<>>



(***************************************************************************)
(* The handlers on tables without one of the columns the specification     *)
(* calls optional: Token, Activated, Terminated.                           *)
(***************************************************************************)
NoTokenHeader == <<hSerial, hClientOrder, hActivated, hTerminated>>

OptionalColumnSheets ==
    { SheetOf(NoTokenHeader, FreshData),
      SheetOf(NoActivatedHeader, FreshData),
      SheetOf(NoTerminatedHeader, TerminatedData) }

OptionalInit ==
    /\ rows \in OptionalColumnSheets
    /\ sheets = TRUE
    /\ startup = "returned_true"
    /\ pc = [r \in Req |-> "idle"]
    /\ req = [r \in Req |-> NoReq]
    /\ loc = [r \in Req |-> NoLoc]
    /\ resp = [r \in Req |-> NoResp]
    /\ wrote = [r \in Req |-> <<>>]
    /\ prior = [r \in Req |-> {}]

OptionalSpec == OptionalInit /\ [][Next]_vars

\* The 500 a handler's catch answers after a locator threw for a missing
\* column.
SchemaAbort(response) ==
    /\ response.status = 500
    /\ response.details \in
           {"Could not find Order column in spreadsheet",
            "Could not find Serial or Token columns in spreadsheet"}

\* C21 (as stated): on a table that has its Serial and ClientOrder columns no
\* claim, consume or validate is answered the 500 of a missing column,
\* whichever of the Token, Activated and Terminated columns is absent.
C21_OptionalColumnsNeverAbort ==
    \A r \in Req : pc[r] = "done" => ~SchemaAbort(resp[r])

\* C21, for the two flag columns: on a table that has its Token column no
\* request is answered the 500 of a missing column, and a validate reads an
\* absent Terminated column as false.
C21_FlagColumnsOptional ==
    Column(rows, hToken) # -1 =>
        /\ \A r \in Req : pc[r] = "done" => ~SchemaAbort(resp[r])
        /\ \A r \in Validates :
              pc[r] = "done" /\ ~HasTerminatedColumn => ~resp[r].is_terminated

\* On the table without a Terminated column a validate of the record stored as
\* terminated (balance 1) has answered valid, not terminated.
C21_Witness ==
    \E r \in Validates :
        /\ ~HasTerminatedColumn
        /\ pc[r] = "done" /\ resp[r].source = "google_sheets"
        /\ resp[r].valid /\ resp[r].tokens = 1 /\ ~resp[r].is_terminated



(***************************************************************************)
(* The column resolver on its own: headers.findIndex applied to header     *)
(* rows of three entries, some empty, in several spellings.                *)
(***************************************************************************)
HeaderEntries ==
    { <<>>,
      hSerial,
      <<"S", "E", "R", "I", "A", "L">>,
      hClientOrder,
      <<"O", "r", "d", "e", "r">>,
      hToken,
      <<"T", "o", "k", "e", "n", "S", "e", "r", "i", "a", "l">>,
      hActivated,
      hTerminated }

FieldSubstrings == {sSerial, sToken, sActivated, sTerminated, sClientOrder}

ResolverInit ==
    /\ rows \in { <<<<a, b, c>>>> :
                      a \in HeaderEntries, b \in HeaderEntries, c \in HeaderEntries }
    /\ sheets = TRUE
    /\ startup = "returned_true"
    /\ pc = [r \in Req |-> "idle"]
    /\ req = [r \in Req |-> NoReq]
    /\ loc = [r \in Req |-> NoLoc]
    /\ resp = [r \in Req |-> NoResp]
    /\ wrote = [r \in Req |-> <<>>]
    /\ prior = [r \in Req |-> {}]

\* Lines 156-169 and 251-263: one headers.findIndex of a field substring, its
\* result kept with the substring.
ResolveColumn(r, sub) ==
    /\ Arrives(r, [NoReq EXCEPT !.op = "findIndex"])
    /\ pc' = [pc EXCEPT ![r] = "done"]
    /\ loc' = [loc EXCEPT ![r] = [substring |-> sub,
                                  columnIndex |-> findIndex(rows[1], sub)]]
    /\ UNCHANGED <<rows, sheets, startup, resp, wrote>>

sOrder == <<"o", "r", "d", "e", "r">>

\* findOrderInSheet of src/unnamed/part_000 (lines 157-159) and of
\* server-improved.js (536-538): headers.findIndex(header => header &&
\* (header.toLowerCase().includes('clientorder') ||
\*  header.toLowerCase().includes('order'))), scanning from index `from`.
RECURSIVE orderColumnIndexFrom(_, _)
orderColumnIndexFrom(headers, from) ==
    IF from >= Len(headers) THEN -1
    ELSE IF /\ headers[from + 1] # <<>>
            /\ \/ lowerIncludes(headers[from + 1], sClientOrder)
               \/ lowerIncludes(headers[from + 1], sOrder)
    THEN from
    ELSE orderColumnIndexFrom(headers, from + 1)

orderColumnIndex(headers) == orderColumnIndexFrom(headers, 0)

\* One resolution of the order column by those variants.
ResolveOrderColumn(r) ==
    /\ Arrives(r, [NoReq EXCEPT !.op = "orderColumnIndex"])
    /\ pc' = [pc EXCEPT ![r] = "done"]
    /\ loc' = [loc EXCEPT ![r] = [substring |-> sOrder,
                                  columnIndex |-> orderColumnIndex(rows[1])]]
    /\ UNCHANGED <<rows, sheets, startup, resp, wrote>>

ResolverNext ==
    \/ \E r \in Req, sub \in FieldSubstrings : ResolveColumn(r, sub)
    \/ \E r \in Req : ResolveOrderColumn(r)

ResolverSpec == ResolverInit /\ [][ResolverNext]_vars

\* The 0-based indices of the non-empty headers that contain sub once every
\* letter is put in lower case.
Holders(headers, sub) ==
    {j \in 0..(Len(headers) - 1) :
        LET h == headers[j + 1]
        IN  /\ h # <<>>
            /\ \E i \in 0..(Len(h) - Len(sub)) :
                   [k \in 1..Len(sub) |-> LowerChar(h[i + k])] = sub}

Resolved == {r \in Req : req[r].op = "findIndex" /\ pc[r] = "done"}

\* C22: the index resolved for a field substring is the smallest index of a
\* non-empty header containing it after lower-casing, and -1 when there is
\* none.
C22_FirstHeaderContaining ==
    \A r \in Resolved :
        LET hits == Holders(rows[1], loc[r].substring)
        IN  IF hits = {} THEN loc[r].columnIndex = -1
            ELSE /\ loc[r].columnIndex \in hits
                 /\ \A j \in hits : loc[r].columnIndex <= j

\* Under the header row [empty, "TokenSerial", "SERIAL"], 'serial' has
\* resolved to index 1 and 'clientorder' to -1.
C22_Witness ==
    \E q, r \in Resolved :
        /\ rows[1] = << <<>>,
                        <<"T", "o", "k", "e", "n", "S", "e", "r", "i", "a", "l">>,
                        <<"S", "E", "R", "I", "A", "L">> >>
        /\ loc[q].substring = sSerial /\ loc[q].columnIndex = 1
        /\ loc[r].substring = sClientOrder /\ loc[r].columnIndex = -1


ResolvedOrder == {r \in Req : req[r].op = "orderColumnIndex" /\ pc[r] = "done"}

\* The smallest member of a non-empty set of indices.
Smallest(S) == CHOOSE j \in S : \A k \in S : j <= k

\* C23 (as stated): the variants that fall back to 'order' resolve the order
\* column to the first header containing 'clientorder' whenever there is one,
\* and to the first header containing 'order' only when there is none.
C23_ClientOrderPreferred ==
    \A r \in ResolvedOrder :
        LET client == Holders(rows[1], sClientOrder)
            order  == Holders(rows[1], sOrder)
        IN  loc[r].columnIndex =
                IF client # {} THEN Smallest(client)
                ELSE IF order # {} THEN Smallest(order)
                ELSE -1

\* What those variants do: the order column is the first header containing
\* 'order', whether or not it contains 'clientorder'.
C23_FirstOrderHeader ==
    \A r \in ResolvedOrder :
        LET order == Holders(rows[1], sOrder)
        IN  loc[r].columnIndex = IF order # {} THEN Smallest(order) ELSE -1

\* Under the header row ["Serial", "ClientOrder", "Order"] the order column
\* has resolved to index 1.
C23_Witness ==
    \E r \in ResolvedOrder :
        /\ rows[1] = <<hSerial, hClientOrder, <<"O", "r", "d", "e", "r">>>>
        /\ loc[r].columnIndex = 1


\* C24: a consume that names a serial and whose amount is not positive is
\* answered 400 'tokens_to_consume must be positive' in the step in which it
\* arrives, whatever the table holds and whether or not the store would answer;
\* nothing is read into the request's locals and nothing is written.
C24_InvalidAmountFirst ==
    [][\A r \in Req :
          ( /\ Arriving(r) /\ req'[r].op = "consume"
            /\ req'[r].serial_number # <<>>
            /\ req'[r].tokens_to_consume <= 0 )
          => /\ Answering(r)
             /\ resp'[r] = Response(400, "tokens_to_consume must be positive")
             /\ loc'[r] = NoLoc
             /\ rows' = rows /\ wrote'[r] = <<>>]_vars

\* Consumes of 0 and of -1 have both been refused.
C24_Witness ==
    \E q, r \in Consumes :
        /\ req[q].tokens_to_consume = 0 /\ req[r].tokens_to_consume = -1
        /\ pc[q] = "done" /\ pc[r] = "done"
        /\ resp[q].error = "tokens_to_consume must be positive"
        /\ resp[r].error = "tokens_to_consume must be positive"
        /\ resp[q].status = 400 /\ resp[r].status = 400


\* C25: a lookup miss is answered as a plain result and changes nothing.  When
\* the first read completes, a claim whose order is in no row is answered
\* 'Order number not found' (200, no success); a consume of a positive amount
\* whose serial is in no row is answered 'Serial number not found in order
\* data' (404); a validate whose serial is in no row is answered not valid
\* with 0 tokens.  Each answers in the step in which it arrives and issues no
\* write.
C25_MissIsSoft ==
    [][\A r \in Req :
          Arriving(r) /\ ~StoreRejected(resp'[r]) =>
            /\ ( /\ req'[r].op = "claim"
                 /\ req'[r].order_number # <<>> /\ req'[r].serial_number # <<>>
                 /\ OrderRow(rows, req'[r].order_number) = 0 )
               => /\ Answering(r)
                  /\ resp'[r] = Response(200, "Order number not found")
                  /\ rows' = rows /\ wrote'[r] = <<>>
            /\ ( /\ req'[r].op = "consume"
                 /\ req'[r].serial_number # <<>> /\ req'[r].tokens_to_consume > 0
                 /\ SerialRow(rows, req'[r].serial_number) = 0 )
               => /\ Answering(r)
                  /\ resp'[r] = Response(404, "Serial number not found in order data")
                  /\ rows' = rows /\ wrote'[r] = <<>>
            /\ ( /\ req'[r].op = "validate"
                 /\ req'[r].serial_number # <<>>
                 /\ SerialRow(rows, req'[r].serial_number) = 0 )
               => /\ Answering(r)
                  /\ resp'[r].status = 200 /\ ~resp'[r].valid /\ resp'[r].tokens = 0
                  /\ resp'[r].error = "Serial number not found"
                  /\ rows' = rows /\ wrote'[r] = <<>>]_vars

\* A claim on an order in no row and a consume on a serial in no row have both
\* been answered not found, the table being as it was at the start.
C25_Witness ==
    \E q \in Claims, r \in Consumes :
        /\ pc[q] = "done" /\ pc[r] = "done"
        /\ OrderRow(rows, req[q].order_number) = 0
        /\ SerialRow(rows, req[r].serial_number) = 0
        /\ resp[q].error = "Order number not found" /\ ~resp[q].success
        /\ resp[r].error = "Serial number not found in order data"
        /\ wrote[q] = <<>> /\ wrote[r] = <<>>

\* A validate on a serial in no row has been answered not valid, 0 tokens.
C25_WitnessValidate ==
    \E r \in Validates :
        /\ pc[r] = "done" /\ req[r].serial_number # <<>>
        /\ SerialRow(rows, req[r].serial_number) = 0
        /\ ~resp[r].valid /\ resp[r].tokens = 0 /\ resp[r].status = 200


\* C26: a consume of an amount between 1 and the balance it reads goes on to
\* the token update with the balance read less the amount; that update, when
\* the store accepts it, overwrites the token cell of the serial's row with
\* that value; and the success answer returns that value as the new balance,
\* the balance read as the previous balance, and the was_terminated flag, set
\* exactly when the terminated cell was written by this call.
C26_ConsumePersistsDifference ==
    [][\A r \in Req :
          LET serial == req'[r].serial_number
              amount == req'[r].tokens_to_consume
              row    == SerialRow(rows, serial)
              at     == loc[r].orderRowInfo
          IN  /\ ( /\ Arriving(r) /\ req'[r].op = "consume" /\ serial # <<>>
                   /\ row # 0 /\ amount > 0 /\ amount <= Balance(rows, row)
                   /\ ~StoreRejected(resp'[r]) )
                 => /\ pc'[r] = "consume_setTokens"
                    /\ loc'[r].orderRowInfo.currentTokens = Balance(rows, row)
                    /\ loc'[r].orderRowInfo.rowIndex = row
                    /\ loc'[r].newTokenValue = Balance(rows, row) - amount
                    /\ rows' = rows
              /\ ( /\ pc[r] = "consume_setTokens" /\ pc'[r] # pc[r]
                   /\ ~StoreRejected(resp'[r]) )
                 => /\ Writes(r)
                    /\ LastWrite(r).rowIndex = row
                    /\ LastWrite(r).columnIndex = Column(rows, hToken)
                    /\ Balance(rows', row) = at.currentTokens - amount
                    /\ \A i \in DataRows(rows) :
                           i # row => Balance(rows', i) = Balance(rows, i)
              /\ ( /\ pc[r] \in {"consume_setTokens", "consume_setTerminated"}
                   /\ Answering(r) /\ ~StoreRejected(resp'[r]) )
                 => /\ resp'[r].success /\ resp'[r].status = 200
                    /\ resp'[r].tokens = at.currentTokens - amount
                    /\ resp'[r].previous = at.currentTokens
                    /\ resp'[r].was_terminated = (pc[r] = "consume_setTerminated")]_vars

\* A consume of 1 from a balance of the grant has succeeded with no other
\* request in between: the token cell holds the grant less 1, which is the new
\* balance answered, the previous balance answered being the grant.
C26_Witness ==
    \E r \in Consumes :
        /\ pc[r] = "done" /\ resp[r].success
        /\ req[r].tokens_to_consume = 1
        /\ resp[r].previous = GRANT /\ resp[r].tokens = GRANT - 1
        /\ Balance(rows, SerialRow(rows, req[r].serial_number)) = GRANT - 1
        /\ Len(wrote[r]) = 1


\* C27: a rejected store call ends the request in the handler's 500 failure.
\* A request that leaves a pending write without the write having been applied
\* is answered 500 with the rejection in details, and the table is as it was;
\* a request that a pending read ends is answered 500; an answer that carries
\* a rejection is a 500 that is neither success nor valid, given in a step
\* that writes nothing; a claim or consume is answered success only in a step
\* that applied a write; and an answered request takes no further step, so
\* the rejected call is not issued again.
C27_StoreErrorsPropagate ==
    [][\A r \in Req :
          /\ (pc[r] \in WritePcs /\ pc'[r] # pc[r] /\ ~Writes(r))
             => /\ Answering(r)
                /\ resp'[r] = StoreFailure(req[r].op)
                /\ rows' = rows
          /\ (pc[r] \in ReadPcs /\ Answering(r))
             => resp'[r].status = 500 /\ ~resp'[r].success
          /\ (Answering(r) /\ StoreRejected(resp'[r]))
             => /\ resp'[r].status = 500
                /\ ~resp'[r].success /\ ~resp'[r].valid
                /\ resp'[r].error \in {"Token claiming failed",
                                       "Google Sheets token consumption failed",
                                       "Google Sheets validation failed"}
                /\ rows' = rows /\ wrote'[r] = wrote[r]
          /\ (Answering(r) /\ req'[r].op \in {"claim", "consume"} /\ resp'[r].success)
             => Writes(r)
          /\ pc[r] = "done"
             => pc'[r] = "done" /\ resp'[r] = resp[r] /\ wrote'[r] = wrote[r]]_vars

\* A claim whose second write was rejected: it is answered 500 'Token claiming
\* failed', its first write stands and it has issued no other.
C27_Witness ==
    \E r \in Claims :
        /\ pc[r] = "done" /\ StoreRejected(resp[r])
        /\ resp[r].status = 500 /\ resp[r].error = "Token claiming failed"
        /\ Len(wrote[r]) = 1


(***************************************************************************)
(* Store calls that never complete                                         *)
(***************************************************************************)
\* A store call is awaited with no timer beside it and no timeout option: when
\* the store never settles the call, nothing resumes the handler.  pc "hung"
\* is a request suspended on such a call; no action is enabled for it.
HangBodies ==
    { [NoReq EXCEPT !.op = "claim", !.order_number = <<"7">>, !.serial_number = S1],
      [NoReq EXCEPT !.op = "consume", !.serial_number = S1, !.tokens_to_consume = 1],
      [NoReq EXCEPT !.op = "validate", !.serial_number = S1] }

\* The first read of a well-formed request never completes.
FirstReadHangs(r, body) ==
    /\ sheets
    /\ Arrives(r, body)
    /\ pc' = [pc EXCEPT ![r] = "hung"]
    /\ UNCHANGED <<rows, sheets, startup, loc, resp, wrote>>

\* A later read or a write of a request never completes.
StoreCallHangs(r) ==
    /\ pc[r] \in ReadPcs \cup WritePcs
    /\ pc' = [pc EXCEPT ![r] = "hung"]
    /\ UNCHANGED <<rows, sheets, startup, req, loc, resp, wrote, prior>>

HangNext ==
    \/ Next
    \/ \E r \in Req, body \in HangBodies : FirstReadHangs(r, body)
    \/ \E r \in Req : StoreCallHangs(r)

\* The continuation of a pending store call of request r: the call is applied
\* or answered, or it is rejected.
Resumes(r) ==
    \/ StoreCallFails(r)
    \/ ClaimSerialLookup(r)
    \/ ClaimFallbackScan(r)
    \/ ClaimSetTokens(r)
    \/ ClaimSetActivated(r)
    \/ ConsumeUpdate(r)

\* Every store call that settles resumes its handler: the event loop runs the
\* continuation of each settled promise.
HangSpec == Init /\ [][HangNext]_vars /\ \A r \in Req : WF_vars(Resumes(r))

\* C28 (as stated): every request that has arrived is eventually answered,
\* also when one of its store calls never completes.
C28_NoOperationHangs ==
    \A r \in Req : (pc[r] # "idle") ~> (pc[r] = "done")

\* What the handlers do guarantee: a request that has arrived is eventually
\* answered unless one of its store calls never completes, and a request
\* suspended on such a call stays suspended, unanswered.
C28_AnsweredUnlessHung ==
    /\ \A r \in Req : (pc[r] # "idle") ~> (pc[r] \in {"done", "hung"})
    /\ \A r \in Req : [](pc[r] = "hung" => [](pc[r] = "hung" /\ resp[r] = NoResp))

\* A consume whose token write never completes: it is suspended with no
\* answer, while a request that arrived after it has been answered.
C28_Witness ==
    \E q, r \in Req :
        /\ pc[q] = "hung" /\ req[q].op = "consume" /\ resp[q] = NoResp
        /\ loc[q].orderRowInfo.outcome = "found"
        /\ q < r /\ pc[r] = "done"


(***************************************************************************)
(* Single-cell writes                                                      *)
(***************************************************************************)
\* C29: the letter of column index 0..25 is the index-th of A..Z, which the
\* store reads back as that column; a step that writes appends one write of
\* one request, addressed to a column 0..25, and changes at most the cell at
\* that write's row and column, every other cell and the number of rows
\* staying as they were; a step that appends no write leaves the table as it
\* was.
C29_SingleCellOverwrite ==
    [][/\ \A c \in 0..25 :
             columnLetter(c) = CharCodes[c + 2] /\ rangeColumn(columnLetter(c)) = c
       /\ \A r \in Req :
             Writes(r) =>
                /\ Len(wrote'[r]) = Len(wrote[r]) + 1
                /\ \A q \in Req \ {r} : wrote'[q] = wrote[q]
                /\ LastWrite(r).rowIndex \in DataRows(rows)
                /\ LastWrite(r).columnIndex \in 0..25
                /\ Cell(rows'[LastWrite(r).rowIndex], LastWrite(r).columnIndex)
                       \in {TRUE_, NumberString(GRANT),
                            NumberString(loc[r].newTokenValue)}
                /\ Len(rows') = Len(rows)
                /\ \A i \in 1..Len(rows), j \in 0..25 :
                       (i # LastWrite(r).rowIndex \/ j # LastWrite(r).columnIndex)
                           => Cell(rows'[i], j) = Cell(rows[i], j)
       /\ (\A r \in Req : ~Writes(r)) => rows' = rows]_vars

\* Between the two writes of a claim on an unclaimed order: the table differs
\* from the one the claim read in the token cell of the serial's row, which
\* holds the grant, and in no other cell; the activated cell of the order's row
\* still holds FALSE.
C29_Witness ==
    \E r \in Claims :
        LET row == SerialRow(rows, req[r].serial_number)
        IN  /\ pc[r] = "claim_setActivated" /\ Len(wrote[r]) = 1
            /\ wrote[r][1].rowIndex = row
            /\ wrote[r][1].columnIndex = Column(rows, hToken)
            /\ Cell(rows[row], Column(rows, hToken)) = NumberString(GRANT)
            /\ Cell(rows[OrderRow(rows, req[r].order_number)],
                    Column(rows, hActivated)) = FALSE_
            /\ \A q \in Req \ {r} : wrote[q] = <<>>


\* C30 (as stated): in every claim answered success, the row whose token cell
\* was set to the grant is the row whose activated cell was set to TRUE, and
\* it is both the serial's row and the order's row.
C30_GrantAndActivationSameRow ==
    \A r \in Claims :
        (pc[r] = "done" /\ resp[r].success /\ Len(wrote[r]) = 2) =>
            /\ wrote[r][1].rowIndex = wrote[r][2].rowIndex
            /\ SerialRow(rows, req[r].serial_number)
                   = OrderRow(rows, req[r].order_number)

\* What the handler does: the grant goes to the serial's row and the
\* activation to the order's row, each looked up on its own.
C30_EachRowByItsOwnKey ==
    \A r \in Claims :
        (pc[r] = "done" /\ resp[r].success /\ Len(wrote[r]) = 2) =>
            /\ wrote[r][1].rowIndex = SerialRow(rows, req[r].serial_number)
            /\ wrote[r][1].columnIndex = Column(rows, hToken)
            /\ wrote[r][2].rowIndex = OrderRow(rows, req[r].order_number)
            /\ wrote[r][2].columnIndex = Column(rows, hActivated)

\* A claim whose serial is on its order's row has succeeded: both writes went
\* to that row.
C30_Witness ==
    \E r \in Claims :
        /\ pc[r] = "done" /\ resp[r].success /\ Len(wrote[r]) = 2
        /\ SerialRow(rows, req[r].serial_number) = OrderRow(rows, req[r].order_number)
        /\ wrote[r][1].rowIndex = wrote[r][2].rowIndex
        /\ wrote[r][1].value = NumberString(GRANT) /\ wrote[r][2].value = TRUE_


(***************************************************************************)
(* Activation reported and activation persisted                            *)
(***************************************************************************)
\* C31 (as stated): whenever a claim has been answered success, the activated
\* cell of the order's row holds TRUE, also on a table whose header has no
\* activated column.
C31_SuccessMeansActivated ==
    \A r \in Claims :
        (pc[r] = "done" /\ resp[r].success) =>
            Activated(rows, OrderRow(rows, req[r].order_number))

\* What the handler does guarantee: on a table that has an activated column a
\* claim answered success has written TRUE into the activated cell of the
\* order's row, and the cell holds it.
C31_ActivatedWhenColumnExists ==
    HasActivatedColumn =>
        \A r \in Claims :
            (pc[r] = "done" /\ resp[r].success) =>
                /\ Activated(rows, OrderRow(rows, req[r].order_number))
                /\ Len(wrote[r]) = 2
                /\ wrote[r][2].columnIndex = Column(rows, hActivated)
                /\ wrote[r][2].value = TRUE_

\* A claim on a table with an activated column has been answered success and
\* the order's row is activated.
C31_Witness ==
    \E r \in Claims :
        /\ HasActivatedColumn
        /\ pc[r] = "done" /\ resp[r].success
        /\ Activated(rows, OrderRow(rows, req[r].order_number))
        /\ wrote[r][Len(wrote[r])].value = TRUE_


(***************************************************************************)
(* Concurrent claims of one order                                          *)
(***************************************************************************)
\* Neither of the two requests had been answered when the other arrived.
Overlapping(q, r) == q # r /\ q \notin prior[r] /\ r \notin prior[q]

\* C32 (as stated): on a table with an activated column, of two claims of the
\* same order that overlap at most one is answered success, and the grant is
\* written by at most one of them.
C32_OneClaimPerOrder ==
    HasActivatedColumn =>
        \A q, r \in Claims :
            ( /\ Overlapping(q, r)
              /\ SameOrder(req[q].order_number, req[r].order_number)
              /\ OrderRow(rows, req[q].order_number) # 0 )
            => /\ ~(pc[q] = "done" /\ resp[q].success
                    /\ pc[r] = "done" /\ resp[r].success)
               /\ ~(wrote[q] # <<>> /\ wrote[r] # <<>>)

\* Two overlapping claims of one order of which one has been answered success
\* and the other, its store call rejected, has not.
C32_Witness ==
    \E q, r \in Claims :
        /\ HasActivatedColumn
        /\ Overlapping(q, r)
        /\ SameOrder(req[q].order_number, req[r].order_number)
        /\ pc[q] = "done" /\ resp[q].success
        /\ pc[r] = "done" /\ ~resp[r].success
        /\ Activated(rows, OrderRow(rows, req[q].order_number))

\* Two overlapping claims of one order have both been answered success, each
\* having written the grant and the activation.
C32_BothGranted ==
    \E q, r \in Claims :
        /\ HasActivatedColumn
        /\ Overlapping(q, r)
        /\ SameOrder(req[q].order_number, req[r].order_number)
        /\ pc[q] = "done" /\ resp[q].success /\ Len(wrote[q]) = 2
        /\ pc[r] = "done" /\ resp[r].success /\ Len(wrote[r]) = 2


StartupInit ==
    /\ rows = SheetOf(FullHeader, FreshData)
    /\ sheets = FALSE
    /\ startup \in {"authorizing", "returned_false"}
    /\ pc = [r \in Req |-> "idle"]
    /\ req = [r \in Req |-> NoReq]
    /\ loc = [r \in Req |-> NoLoc]
    /\ resp = [r \in Req |-> NoResp]
    /\ wrote = [r \in Req |-> <<>>]
    /\ prior = [r \in Req |-> {}]

\* await auth.authorize() settles: on success the handle is assigned and the
\* test read is issued; on rejection the catch returns false.
AuthorizeSettles(ok) ==
    /\ startup = "authorizing"
    /\ IF ok
       THEN sheets' = TRUE /\ startup' = "testing"
       ELSE sheets' = sheets /\ startup' = "returned_false"
    /\ UNCHANGED <<rows, pc, req, loc, resp, wrote, prior>>

\* The test read of Sheet1!A1:A1 settles: the function returns true, or the
\* catch returns false; the handle stays as assigned.
TestReadSettles(ok) ==
    /\ startup = "testing"
    /\ startup' = IF ok THEN "returned_true" ELSE "returned_false"
    /\ UNCHANGED <<rows, sheets, pc, req, loc, resp, wrote, prior>>

StartupNext ==
    \/ Next
    \/ \E ok \in BOOLEAN : AuthorizeSettles(ok)
    \/ \E ok \in BOOLEAN : TestReadSettles(ok)

StartupSpec == StartupInit /\ [][StartupNext]_vars

\* C34 (as stated): every consume answered success has had the balance it
\* answers written to the token cell of its serial's row, also when it arrived
\* while the store client was not initialised.
C34_SuccessMeansDeducted ==
    \A r \in Consumes :
        (pc[r] = "done" /\ resp[r].success) =>
            /\ Len(wrote[r]) >= 1
            /\ wrote[r][1].rowIndex = SerialRow(rows, req[r].serial_number)
            /\ wrote[r][1].columnIndex = Column(rows, hToken)
            /\ wrote[r][1].value = NumberString(resp[r].tokens)
            /\ resp[r].tokens = resp[r].previous - req[r].tokens_to_consume

\* What the handler does guarantee: a consume answered success from the store
\* (source 'google_sheets') has had the deduction written.
C34_StoreSuccessMeansDeducted ==
    \A r \in Consumes :
        (pc[r] = "done" /\ resp[r].success /\ resp[r].source = "google_sheets") =>
            /\ Len(wrote[r]) >= 1
            /\ wrote[r][1].rowIndex = SerialRow(rows, req[r].serial_number)
            /\ wrote[r][1].columnIndex = Column(rows, hToken)
            /\ wrote[r][1].value = NumberString(resp[r].tokens)
            /\ resp[r].tokens = resp[r].previous - req[r].tokens_to_consume

\* A consume that arrived after the handle was assigned has been answered
\* success, its deduction written.
C34_Witness ==
    \E r \in Consumes :
        /\ sheets
        /\ pc[r] = "done" /\ resp[r].success /\ resp[r].source = "google_sheets"
        /\ Len(wrote[r]) = 1
        /\ wrote[r][1].value = NumberString(resp[r].previous - req[r].tokens_to_consume)

\* A consume answered success by the mock path: nothing was read or written.
C34_MockSuccess ==
    \E r \in Consumes :
        /\ pc[r] = "done" /\ resp[r].success /\ resp[r].source = "mock"
        /\ wrote[r] = <<>>

\* C36 (as stated): the handle is non-null only if initializeGoogleSheets
\* authorised, confirmed spreadsheet access and returned true.
C36_HandleOnlyAfterSuccess ==
    sheets => startup = "returned_true"

\* What the code does guarantee: the handle is null until authorisation has
\* succeeded, and it is non-null whenever the function has returned true.
C36_HandleOnlyAfterAuthorize ==
    /\ sheets => startup # "authorizing"
    /\ startup \in {"testing", "returned_true"} => sheets

\* initializeGoogleSheets has returned true and the handle is non-null.
C36_Witness ==
    sheets /\ startup = "returned_true"

\* The test read failed: initializeGoogleSheets returned false and the handle
\* is non-null; a request has since been served on the store path.
C36_HandleAfterFailedTest ==
    /\ sheets /\ startup = "returned_false"
    /\ \E r \in Req : pc[r] = "done" /\ resp[r].source = "google_sheets"


(***************************************************************************)
(* POST /api/claude: the account gate before the outbound call             *)
(***************************************************************************)
ClaudeSerials == {S1, S2, S9, <<>>}

\* The outcomes of the outbound call: curl fails, the API answers a status
\* other than 200, it answers 200 with a body that does not parse, or with
\* one that does.
ExecOutcomes == {"error", "non200", "unparsable", "ok"}

\* Faulty variant of ClaudeProxy: a balance of 0 passes the gate.
ClaudeProxyZeroAllowed(r, hasMessage, serial_number, hasKey, ok) ==
    /\ Arrives(r, [NoReq EXCEPT !.op = "claude", !.serial_number = serial_number])
    /\ LET orderRowInfo == findOrderRowBySerial(rows, serial_number)
       IN  IF ~hasMessage
           THEN Respond(r, Response(400, "Message is required"))
           ELSE IF serial_number = <<>>
           THEN Respond(r, Response(400,
                    "Serial number is required for API access validation"))
           ELSE IF ~hasKey
           THEN Respond(r, Response(500,
                    "Server configuration error: API key not configured"))
           ELSE IF ~sheets
           THEN Respond(r, Response(500,
                    "Account validation service unavailable - API access denied"))
           ELSE IF ~ok
           THEN Respond(r, Failure(500,
                    "Account validation failed - API access denied",
                    "store call rejected"))
           ELSE IF orderRowInfo.outcome = "throw"
           THEN Respond(r, Failure(500,
                    "Account validation failed - API access denied",
                    "Could not find Serial or Token columns in spreadsheet"))
           ELSE IF orderRowInfo.outcome = "null"
           THEN Respond(r, Response(403, "Account not found - API access denied"))
           ELSE IF orderRowInfo.isTerminated
           THEN Respond(r, Response(403, "Account is terminated - API access denied"))
           ELSE IF orderRowInfo.currentTokens < 0
           THEN Respond(r, [Response(403, "Insufficient tokens - API access denied")
                               EXCEPT !.tokens = orderRowInfo.currentTokens])
           ELSE Await(r, "claude_exec", [loc[r] EXCEPT !.orderRowInfo = orderRowInfo])
    /\ UNCHANGED <<rows, sheets, startup, wrote>>

\* The handler up to its await: the checks on the body and the environment,
\* the handle, then the account read and the three tests on the record.  A
\* request that passes them all goes on to exec(curlCommand).
ClaudeProxy(r, hasMessage, serial_number, hasKey, ok) ==
    /\ Arrives(r, [NoReq EXCEPT !.op = "claude", !.serial_number = serial_number])
    /\ LET orderRowInfo == findOrderRowBySerial(rows, serial_number)
       IN  IF ~hasMessage
           THEN Respond(r, Response(400, "Message is required"))
           ELSE IF serial_number = <<>>
           THEN Respond(r, Response(400,
                    "Serial number is required for API access validation"))
           ELSE IF ~hasKey
           THEN Respond(r, Response(500,
                    "Server configuration error: API key not configured"))
           ELSE IF ~sheets
           THEN Respond(r, Response(500,
                    "Account validation service unavailable - API access denied"))
           ELSE IF ~ok
           THEN Respond(r, Failure(500,
                    "Account validation failed - API access denied",
                    "store call rejected"))
           ELSE IF orderRowInfo.outcome = "throw"
           THEN Respond(r, Failure(500,
                    "Account validation failed - API access denied",
                    "Could not find Serial or Token columns in spreadsheet"))
           ELSE IF orderRowInfo.outcome = "null"
           THEN Respond(r, Response(403, "Account not found - API access denied"))
           ELSE IF orderRowInfo.isTerminated
           THEN Respond(r, Response(403, "Account is terminated - API access denied"))
           ELSE IF orderRowInfo.currentTokens <= 0
           THEN Respond(r, [Response(403, "Insufficient tokens - API access denied")
                               EXCEPT !.tokens = orderRowInfo.currentTokens])
           ELSE Await(r, "claude_exec", [loc[r] EXCEPT !.orderRowInfo = orderRowInfo])
    /\ UNCHANGED <<rows, sheets, startup, wrote>>

\* The callback of exec(curlCommand, { timeout: 30000 }, ...).
ClaudeExecSettles(r, outcome) ==
    /\ pc[r] = "claude_exec"
    /\ Respond(r,
          CASE outcome = "error"  -> Response(500, "Failed to execute curl command")
            [] outcome = "non200" -> Response(500, "Claude API request failed")
            [] outcome = "unparsable" ->
                   Response(500, "Failed to parse Claude API response")
            [] OTHER -> [Response(200, "") EXCEPT !.success = TRUE])
    /\ UNCHANGED <<rows, sheets, startup, req, wrote, prior>>

\* The tables the gate is run on: an empty and a full balance, and a
\* terminated record with a residual balance.
ProxyInit ==
    /\ rows \in {SheetOf(FullHeader, FreshData), SheetOf(FullHeader, TerminatedData)}
    /\ sheets = FALSE
    /\ startup \in {"authorizing", "returned_false"}
    /\ pc = [r \in Req |-> "idle"]
    /\ req = [r \in Req |-> NoReq]
    /\ loc = [r \in Req |-> NoLoc]
    /\ resp = [r \in Req |-> NoResp]
    /\ wrote = [r \in Req |-> <<>>]
    /\ prior = [r \in Req |-> {}]

ProxyNext ==
    \/ StartupNext
    \/ \E r \in Req, hasMessage \in BOOLEAN, s \in ClaudeSerials,
          hasKey \in BOOLEAN, ok \in BOOLEAN :
           ClaudeProxy(r, hasMessage, s, hasKey, ok)
    \/ \E r \in Req, outcome \in ExecOutcomes : ClaudeExecSettles(r, outcome)

ProxySpec == ProxyInit /\ [][ProxyNext]_vars

Claudes == {r \in Req : req[r].op = "claude"}

\* The answers given by the callback of the outbound call.
AfterOutbound(response) ==
    \/ response.status = 200
    \/ response.error \in {"Failed to execute curl command",
                           "Claude API request failed",
                           "Failed to parse Claude API response"}

\* C35: a request to /api/claude goes on to the outbound call only in the step
\* in which it read its serial's record, the handle being non-null and the
\* record found, not terminated and with a balance above 0; a request whose
\* serial is missing, unknown, terminated or without balance, or that arrives
\* while the handle is null, is answered in that step with a 4xx or 5xx that
\* is not an answer of the outbound call; only a request that went on to the
\* outbound call gets such an answer; and no step of the request changes the
\* table or records a write.
C35_GateBeforeOutbound ==
    [][\A r \in Req :
          LET serial == req'[r].serial_number
              row    == SerialRow(rows, serial)
          IN  req'[r].op = "claude" =>
                /\ (pc'[r] = "claude_exec" /\ pc[r] # "claude_exec")
                   => /\ Arriving(r) /\ sheets
                      /\ row # 0
                      /\ ~Terminated(rows, row)
                      /\ Balance(rows, row) > 0
                      /\ loc'[r].orderRowInfo.rowIndex = row
                /\ ( /\ Arriving(r)
                     /\ \/ ~sheets \/ serial = <<>> \/ row = 0
                        \/ Terminated(rows, row) \/ Balance(rows, row) <= 0 )
                   => /\ Answering(r)
                      /\ resp'[r].status \in {400, 403, 500}
                      /\ ~AfterOutbound(resp'[r]) /\ ~resp'[r].success
                /\ (Answering(r) /\ AfterOutbound(resp'[r]))
                   => pc[r] = "claude_exec"
                /\ (pc[r] # pc'[r]) => rows' = rows /\ wrote' = wrote
                /\ wrote'[r] = <<>>]_vars

\* A request for a serial with the full grant has had its outbound call
\* answered, and one for a serial with balance 0 has been refused 403.
C35_Witness ==
    \E q, r \in Claudes :
        /\ pc[q] = "done" /\ resp[q].success /\ resp[q].status = 200
        /\ loc[q].orderRowInfo.currentTokens > 0
        /\ pc[r] = "done" /\ resp[r].status = 403
        /\ resp[r].error = "Insufficient tokens - API access denied"
        /\ wrote[q] = <<>> /\ wrote[r] = <<>>


(***************************************************************************)
(* The legacy add-tokens claim (src/unnamed/part_000, server-improved.js)  *)
(***************************************************************************)
S8 == <<"S", "8">>

\* Legacy tables: order rows and user rows share the sheet.  The serial column
\* is followed by the order column and then the token column, or directly by
\* the token column.
LegacyHeader   == <<hSerial, hClientOrder, hToken>>
AdjacentHeader == <<hSerial, hToken, hClientOrder>>

\* A user S1 holding 5 tokens on the row of order "#7", and an order "8" worth
\* 3 tokens that has no serial.
LegacyData ==
    << [serial |-> S1, order |-> <<"#", "7">>, token |-> <<"5">>,
        activated |-> <<>>, terminated |-> <<>>],
       [serial |-> <<>>, order |-> <<"8">>, token |-> <<"3">>,
        activated |-> <<>>, terminated |-> <<>>] >>

LegacySheets == {SheetOf(LegacyHeader, LegacyData), SheetOf(AdjacentHeader, LegacyData)}

\* Orders "#7" and "8" are stored, "9" is not; S1 is a user, S8 and S9 are not.
LegacyInputs ==
    { <<<<"7">>, S1>>, <<<<"8">>, S1>>, <<<<"8">>, S8>>, <<<<"8">>, S9>>,
      <<<<"9">>, S1>>, <<<<>>, S1>> }

LegacyLoc ==
    [orderInfo |-> NoRow, userInfo |-> NoRow,
     serialColumnIndex |-> -1, tokenColumnIndex |-> -1, nextRow |-> 0]

LegacyInit ==
    /\ rows \in LegacySheets
    /\ sheets = TRUE
    /\ startup = "returned_true"
    /\ pc = [r \in Req |-> "idle"]
    /\ req = [r \in Req |-> NoReq]
    /\ loc = [r \in Req |-> LegacyLoc]
    /\ resp = [r \in Req |-> NoResp]
    /\ wrote = [r \in Req |-> <<>>]
    /\ prior = [r \in Req |-> {}]

\* The legacy findOrderInSheet: the order column is the first header holding
\* 'clientorder' or 'order'; the order's tokens are its row's token cell.
legacyFindOrderInSheet(sheet, orderNumber) ==
    IF Len(sheet) = 0 THEN NoRow
    ELSE
    LET headers           == sheet[1]
        orderColumn       == orderColumnIndex(headers)
        tokensColumnIndex == findIndex(headers, sToken)
        match(i) == replaceHash(Cell(sheet[i], orderColumn)) = replaceHash(orderNumber)
    IN  IF orderColumn = -1 THEN [NoRow EXCEPT !.outcome = "throw"]
        ELSE IF \E i \in 2..Len(sheet) : match(i)
        THEN LET i == CHOOSE i \in 2..Len(sheet) :
                          match(i) /\ \A k \in 2..(i - 1) : ~match(k)
             IN  [NoRow EXCEPT
                     !.outcome = "found", !.rowIndex = i,
                     !.tokens = IF tokensColumnIndex # -1
                                THEN parseIntOr0(Cell(sheet[i], tokensColumnIndex))
                                ELSE 1000]
        ELSE NoRow

\* findUserInSheet: the first data row whose serial cell is the serial.
findUserInSheet(sheet, serialNumber) ==
    IF Len(sheet) = 0 THEN NoRow
    ELSE
    LET headers           == sheet[1]
        serialColumnIndex == findIndex(headers, sSerial)
        tokenColumnIndex  == findIndex(headers, sToken)
        match(i) == Cell(sheet[i], serialColumnIndex) = serialNumber
    IN  IF serialColumnIndex = -1 \/ tokenColumnIndex = -1
        THEN [NoRow EXCEPT !.outcome = "throw"]
        ELSE IF \E i \in 2..Len(sheet) : match(i)
        THEN LET i == CHOOSE i \in 2..Len(sheet) :
                          match(i) /\ \A k \in 2..(i - 1) : ~match(k)
             IN  [NoRow EXCEPT
                     !.outcome = "found", !.rowIndex = i,
                     !.tokenColumnIndex = tokenColumnIndex,
                     !.currentTokens = parseIntOr0(Cell(sheet[i], tokenColumnIndex))]
        ELSE NoRow

\* values.update of the range <firstLetter><rowIndex>:<lastLetter><rowIndex>
\* with one row of values: the store writes the values into consecutive cells
\* from the first cell of the range; a range wider than the values keeps its
\* remaining cells.  The first letter is left of the last in every table here.
updateRange(sheet, rowIndex, firstLetter, lastLetter, values) ==
    LET first == rangeColumn(firstLetter)
    IN  updateCell(updateCell(sheet, rowIndex, first, values[1]),
                   rowIndex, first + 1, values[2])

\* The handler up to its first await, and the order read.
LegacyClaimTokens(r, order_number, serial_number, ok) ==
    /\ Arrives(r, [NoReq EXCEPT !.op = "legacy_claim", !.order_number = order_number,
                                !.serial_number = serial_number])
    /\ LET orderInfo == legacyFindOrderInSheet(rows, order_number)
       IN  IF order_number = <<>> \/ serial_number = <<>>
           THEN Respond(r, Response(400,
                    "Order number, serial number, and device ID are required"))
           ELSE IF ~sheets
           THEN Respond(r, Response(500,
                    "Token claiming service temporarily unavailable"))
           ELSE IF ~ok
           THEN Respond(r, StoreFailure("claim"))
           ELSE IF orderInfo.outcome = "throw"
           THEN Respond(r, Failure(500, "Token claiming failed",
                    "Could not find Order column in spreadsheet"))
           ELSE IF orderInfo.outcome = "null"
           THEN Respond(r, Response(200, "Order number not found"))
           ELSE Await(r, "legacy_findUser", [loc[r] EXCEPT !.orderInfo = orderInfo])
    /\ UNCHANGED <<rows, sheets, startup, wrote>>

\* addTokensToUser: await findUserInSheet(serialNumber).
LegacyFindUser(r) ==
    /\ pc[r] = "legacy_findUser"
    /\ LET userInfo == findUserInSheet(rows, req[r].serial_number)
       IN  IF userInfo.outcome = "throw"
           THEN Respond(r, Failure(500, "Token claiming failed",
                    "Could not find Serial or Token columns in spreadsheet"))
           ELSE IF userInfo.outcome = "found"
           THEN Await(r, "legacy_update", [loc[r] EXCEPT !.userInfo = userInfo])
           ELSE Await(r, "legacy_headers", loc[r])
    /\ UNCHANGED <<rows, sheets, startup, req, wrote, prior>>

\* The serial is new: the read of the header row, Sheet1!1:1.
LegacyReadHeaders(r) ==
    /\ pc[r] = "legacy_headers"
    /\ Await(r, "legacy_allData",
             [loc[r] EXCEPT !.serialColumnIndex = findIndex(rows[1], sSerial),
                            !.tokenColumnIndex = findIndex(rows[1], sToken)])
    /\ UNCHANGED <<rows, sheets, startup, req, wrote, prior>>

\* The read of Sheet1!A:Z that counts the rows: nextRow = values.length + 1.
LegacyReadAllData(r) ==
    /\ pc[r] = "legacy_allData"
    /\ Await(r, "legacy_insert", [loc[r] EXCEPT !.nextRow = Len(rows) + 1])
    /\ UNCHANGED <<rows, sheets, startup, req, wrote, prior>>

\* The update of <serialColumn><nextRow>:<tokenColumn><nextRow> with
\* [[serialNumber, tokensToAdd]], and the success answer.
LegacyInsert(r) ==
    /\ pc[r] = "legacy_insert"
    /\ LET first  == rangeColumn(columnLetter(loc[r].serialColumnIndex))
           tokens == loc[r].orderInfo.tokens
           sheet  == updateRange(rows, loc[r].nextRow,
                                 columnLetter(loc[r].serialColumnIndex),
                                 columnLetter(loc[r].tokenColumnIndex),
                                 <<req[r].serial_number, NumberString(tokens)>>)
       IN  /\ rows' = sheet
           /\ wrote' = [wrote EXCEPT ![r] = @ \o
                  << [rowIndex |-> loc[r].nextRow, columnIndex |-> first,
                      value |-> Cell(sheet[loc[r].nextRow], first)],
                     [rowIndex |-> loc[r].nextRow, columnIndex |-> first + 1,
                      value |-> Cell(sheet[loc[r].nextRow], first + 1)] >>]
           /\ Respond(r, [Response(200, "") EXCEPT
                  !.success = TRUE, !.tokens = tokens, !.previous = 0,
                  !.requested = tokens])
    /\ UNCHANGED <<sheets, startup, req, prior>>

\* The serial has a row: updateTokensInSheet(rowIndex, tokenColumnIndex,
\* currentTokens + tokensToAdd), and the success answer.
LegacyUpdate(r) ==
    /\ pc[r] = "legacy_update"
    /\ LET userInfo      == loc[r].userInfo
           newTokenValue == userInfo.currentTokens + loc[r].orderInfo.tokens
       IN  /\ Applied(r, updateTokensInSheet(rows, userInfo.rowIndex,
                                             userInfo.tokenColumnIndex, newTokenValue),
                      userInfo.rowIndex, userInfo.tokenColumnIndex)
           /\ Respond(r, [Response(200, "") EXCEPT
                  !.success = TRUE, !.tokens = newTokenValue,
                  !.previous = userInfo.currentTokens,
                  !.requested = loc[r].orderInfo.tokens])
    /\ UNCHANGED <<sheets, startup, req, prior>>

LegacyPcs ==
    {"legacy_findUser", "legacy_headers", "legacy_allData", "legacy_insert",
     "legacy_update"}

\* A store call of the legacy claim rejects: the handler's catch answers 500.
LegacyStoreCallFails(r) ==
    /\ pc[r] \in LegacyPcs
    /\ Respond(r, StoreFailure("claim"))
    /\ UNCHANGED <<rows, sheets, startup, req, wrote, prior>>

LegacyNext ==
    \/ \E r \in Req, b \in LegacyInputs, ok \in BOOLEAN :
           LegacyClaimTokens(r, b[1], b[2], ok)
    \/ \E r \in Req : LegacyFindUser(r)
    \/ \E r \in Req : LegacyReadHeaders(r)
    \/ \E r \in Req : LegacyReadAllData(r)
    \/ \E r \in Req : LegacyInsert(r)
    \/ \E r \in Req : LegacyUpdate(r)
    \/ \E r \in Req : LegacyStoreCallFails(r)

LegacySpec == LegacyInit /\ [][LegacyNext]_vars

LegacyClaims == {r \in Req : req[r].op = "legacy_claim"}


\* The step is the insertion of request r.
Inserting(r) == pc[r] = "legacy_insert" /\ Writes(r)

\* C38 (as stated): the insertion for a serial seen for the first time adds
\* exactly one row after the rows the table holds, with the serial in the
\* serial column and the token amount in the token column, and changes no
\* row the table holds; also when two insertions overlap.
C38_InsertsOneTrailingRow ==
    [][\A r \in Req :
          Inserting(r) =>
             LET new == Len(rows) + 1
             IN  /\ Len(rows') = new
                 /\ Serial(rows', new) = req[r].serial_number
                 /\ Balance(rows', new) = loc[r].orderInfo.tokens
                 /\ \A i \in 1..Len(rows) : rows'[i] = rows[i]]_vars

\* What the insertion does: it writes the serial into the serial column and
\* the token amount into the column right of it, in the row numbered one more
\* than the rows it counted, whatever that row holds by then, and changes no
\* other row.
C38_WritesFromSerialColumn ==
    [][\A r \in Req :
          Inserting(r) =>
             LET at == loc[r].nextRow
                 c  == Column(rows, hSerial)
             IN  /\ Cell(rows'[at], c) = req[r].serial_number
                 /\ Cell(rows'[at], c + 1) = NumberString(loc[r].orderInfo.tokens)
                 /\ \A j \in 0..25 : j \notin {c, c + 1} =>
                        Cell(rows'[at], j) = (IF at <= Len(rows)
                                              THEN Cell(rows[at], j) ELSE <<>>)
                 /\ \A i \in 1..Len(rows) : i # at => rows'[i] = rows[i]]_vars

\* On the table whose token column follows the serial column, one insertion
\* has added the trailing row for S9 with the 3 tokens of order 8.
C38_Witness ==
    \E r \in LegacyClaims :
        /\ rows[1] = AdjacentHeader
        /\ pc[r] = "done" /\ resp[r].success /\ Len(wrote[r]) = 2
        /\ Len(rows) = 4
        /\ Serial(rows, 4) = req[r].serial_number
        /\ Balance(rows, 4) = 3
        /\ \A q \in Req \ {r} : wrote[q] = <<>>

\* On the table whose order column follows the serial column the inserted row
\* holds the token amount in the order column and nothing in the token column.
C38_TokensInOrderColumn ==
    \E r \in LegacyClaims :
        /\ rows[1] = LegacyHeader
        /\ pc[r] = "done" /\ resp[r].success /\ Len(wrote[r]) = 2
        /\ Len(rows) = 4
        /\ Serial(rows, 4) = req[r].serial_number
        /\ Cell(rows[4], Column(rows, hClientOrder)) = <<"3">>
        /\ Cell(rows[4], Column(rows, hToken)) = <<>>

\* Two overlapping insertions for different serials have both been answered
\* success and the table has one new row, holding the later serial only.
C38_RowOverwritten ==
    \E q, r \in LegacyClaims :
        /\ q # r /\ req[q].serial_number # req[r].serial_number
        /\ pc[q] = "done" /\ resp[q].success /\ Len(wrote[q]) = 2
        /\ pc[r] = "done" /\ resp[r].success /\ Len(wrote[r]) = 2
        /\ Len(rows) = 4
        /\ SerialRow(rows, req[q].serial_number) = 0
        /\ SerialRow(rows, req[r].serial_number) = 4


\* C37 (as stated): every legacy claim answered success has raised the balance
\* of its serial by the tokens of the order's row: in the step that answers,
\* the serial has a row, its balance is the previous balance plus the order's
\* tokens, the previous balance being the one read from the serial's row, or 0
\* for a serial that had none; and the answer reports these two balances.
C37_ClaimAddsOrderTokens ==
    [][\A r \in Req :
          (req[r].op = "legacy_claim" /\ Answering(r) /\ resp'[r].success) =>
             LET serial   == req[r].serial_number
                 previous == IF pc[r] = "legacy_update"
                             THEN loc[r].userInfo.currentTokens ELSE 0
             IN  /\ SerialRow(rows', serial) # 0
                 /\ Balance(rows', SerialRow(rows', serial))
                        = previous + loc[r].orderInfo.tokens
                 /\ resp'[r].previous = previous
                 /\ resp'[r].tokens = previous + loc[r].orderInfo.tokens]_vars

\* What the handler does guarantee: a legacy claim for a serial that has a row
\* writes the balance it read plus the order's tokens into that row's token
\* cell, with no test of whether the order was claimed before.
C37_SeenSerialRaised ==
    [][\A r \in Req :
          (pc[r] = "legacy_update" /\ Answering(r) /\ resp'[r].success) =>
             LET row == SerialRow(rows, req[r].serial_number)
             IN  /\ row # 0 /\ row = loc[r].userInfo.rowIndex
                 /\ Balance(rows', row)
                        = loc[r].userInfo.currentTokens + loc[r].orderInfo.tokens
                 /\ resp'[r].previous = loc[r].userInfo.currentTokens
                 /\ resp'[r].tokens = Balance(rows', row)]_vars

\* Two successive claims of order 8 by the user S1: both succeeded and the
\* balance went from 5 to 8 to 11.
C37_Witness ==
    \E q, r \in LegacyClaims :
        /\ q \in prior[r]
        /\ req[q].order_number = <<"8">> /\ req[r].order_number = <<"8">>
        /\ req[q].serial_number = S1 /\ req[r].serial_number = S1
        /\ pc[r] = "done" /\ resp[q].success /\ resp[r].success
        /\ resp[q].previous = 5 /\ resp[q].tokens = 8
        /\ resp[r].previous = 8 /\ resp[r].tokens = 11
        /\ Balance(rows, SerialRow(rows, S1)) = 11

====
